---- MODULE Spec2Model ----
(***************************************************************************)
(* Order life cycle of the Sales Portal test suite.                        *)
(*                                                                         *)
(* The backend is the system under test and is not part of the repository: *)
(* what it answers to a status-change or a receive request is taken from   *)
(* the data-driven tables of the suite (orders_status_ddt.py,              *)
(* receive_ddt.py).  The composite order factories of OrdersApiService     *)
(* are translated call by call; a test first runs one factory and then     *)
(* sends requests of its own to the order the factory returned.            *)
(***************************************************************************)
EXTENDS Integers, Sequences, FiniteSets, TLC

\* ------------------------------------------------------------------------
\* Bounds
\* ------------------------------------------------------------------------

\* Requests a test sends to the order after its factory has returned.
MaxTestRequests == 3

\* ------------------------------------------------------------------------
\* Enumerations
\* ------------------------------------------------------------------------

DRAFT == "Draft"
PROCESSING == "In Process"
PARTIALLY_RECEIVED == "Partially Received"
RECEIVED == "Received"
CANCELED == "Canceled"

OrderStatus == {DRAFT, PROCESSING, PARTIALLY_RECEIVED, RECEIVED, CANCELED}

OK == 200
CREATED == 201
DELETED == 204
BAD_REQUEST == 400

INVALID_ORDER_STATUS == "Invalid order status"
ORDER_IS_NOT_PROCESSED == "Can't process order. Please, schedule delivery"
CANT_REOPEN == "Can't reopen not canceled order"
NoMessage == "None"

\* An order carries at most five products.
MaxProducts == 5

Range(s) == {s[i] : i \in 1..Len(s)}

\* ------------------------------------------------------------------------
\* Test data: PUT /api/orders/:id/status
\* ------------------------------------------------------------------------

OrderStatusTransitionCase(from_state, order_factory, products_count, to, expected_status, expected_error_message, is_success) ==
    [from_state |-> from_state, order_factory |-> order_factory,
     products_count |-> products_count, to |-> to,
     expected_status |-> expected_status,
     expected_error_message |-> expected_error_message,
     is_success |-> is_success]

\* Variant: the positive table also lists Canceled to In Process.
POSITIVE_WithCanceledToProcessing ==
    << OrderStatusTransitionCase("Draft with delivery", "create_order_with_delivery", 1,
                                 PROCESSING, OK, NoMessage, TRUE),
       OrderStatusTransitionCase("Draft with delivery", "create_order_with_delivery", 1,
                                 CANCELED, OK, NoMessage, TRUE),
       OrderStatusTransitionCase("Draft", "create_order_and_entities", 1,
                                 CANCELED, OK, NoMessage, TRUE),
       OrderStatusTransitionCase("Canceled", "create_canceled_order", 1,
                                 DRAFT, OK, NoMessage, TRUE),
       OrderStatusTransitionCase("In Process", "create_order_in_process", 1,
                                 CANCELED, OK, NoMessage, TRUE),
       OrderStatusTransitionCase("Canceled", "create_canceled_order", 1,
                                 PROCESSING, OK, NoMessage, TRUE) >>

\* Variant: the positive table lets an order in process go back to Draft.
POSITIVE_WithProcessingToDraft ==
    << OrderStatusTransitionCase("Draft with delivery", "create_order_with_delivery", 1,
                                 PROCESSING, OK, NoMessage, TRUE),
       OrderStatusTransitionCase("Draft with delivery", "create_order_with_delivery", 1,
                                 CANCELED, OK, NoMessage, TRUE),
       OrderStatusTransitionCase("Draft", "create_order_and_entities", 1,
                                 CANCELED, OK, NoMessage, TRUE),
       OrderStatusTransitionCase("Canceled", "create_canceled_order", 1,
                                 DRAFT, OK, NoMessage, TRUE),
       OrderStatusTransitionCase("In Process", "create_order_in_process", 1,
                                 CANCELED, OK, NoMessage, TRUE),
       OrderStatusTransitionCase("In Process", "create_order_in_process", 1,
                                 DRAFT, OK, NoMessage, TRUE) >>

POSITIVE_ORDER_STATUS_TRANSITIONS ==
    << OrderStatusTransitionCase("Draft with delivery", "create_order_with_delivery", 1,
                                 PROCESSING, OK, NoMessage, TRUE),
       OrderStatusTransitionCase("Draft with delivery", "create_order_with_delivery", 1,
                                 CANCELED, OK, NoMessage, TRUE),
       OrderStatusTransitionCase("Draft", "create_order_and_entities", 1,
                                 CANCELED, OK, NoMessage, TRUE),
       OrderStatusTransitionCase("Canceled", "create_canceled_order", 1,
                                 DRAFT, OK, NoMessage, TRUE),
       OrderStatusTransitionCase("In Process", "create_order_in_process", 1,
                                 CANCELED, OK, NoMessage, TRUE) >>

\* Variant: the negative table lacks the case Received to Canceled.
NEGATIVE_WithoutReceivedToCanceled ==
    << OrderStatusTransitionCase("Draft", "create_order_and_entities", 1,
                                 DRAFT, BAD_REQUEST, CANT_REOPEN, FALSE),
       OrderStatusTransitionCase("Draft", "create_order_and_entities", 1,
                                 PROCESSING, BAD_REQUEST, ORDER_IS_NOT_PROCESSED, FALSE),
       OrderStatusTransitionCase("In Process", "create_order_in_process", 1,
                                 PROCESSING, BAD_REQUEST, INVALID_ORDER_STATUS, FALSE),
       OrderStatusTransitionCase("In Process", "create_order_in_process", 1,
                                 DRAFT, BAD_REQUEST, CANT_REOPEN, FALSE),
       OrderStatusTransitionCase("Partially Received", "create_partially_received_order", 2,
                                 DRAFT, BAD_REQUEST, CANT_REOPEN, FALSE),
       OrderStatusTransitionCase("Partially Received", "create_partially_received_order", 2,
                                 PROCESSING, BAD_REQUEST, INVALID_ORDER_STATUS, FALSE),
       OrderStatusTransitionCase("Partially Received", "create_partially_received_order", 2,
                                 CANCELED, BAD_REQUEST, INVALID_ORDER_STATUS, FALSE),
       OrderStatusTransitionCase("Received", "create_received_order", 1,
                                 DRAFT, BAD_REQUEST, CANT_REOPEN, FALSE),
       OrderStatusTransitionCase("Received", "create_received_order", 1,
                                 PROCESSING, BAD_REQUEST, INVALID_ORDER_STATUS, FALSE),
       OrderStatusTransitionCase("Canceled", "create_canceled_order", 1,
                                 CANCELED, BAD_REQUEST, INVALID_ORDER_STATUS, FALSE),
       OrderStatusTransitionCase("Canceled", "create_canceled_order", 1,
                                 PROCESSING, BAD_REQUEST, INVALID_ORDER_STATUS, FALSE) >>

NEGATIVE_ORDER_STATUS_TRANSITIONS ==
    << OrderStatusTransitionCase("Draft", "create_order_and_entities", 1,
                                 DRAFT, BAD_REQUEST, CANT_REOPEN, FALSE),
       OrderStatusTransitionCase("Draft", "create_order_and_entities", 1,
                                 PROCESSING, BAD_REQUEST, ORDER_IS_NOT_PROCESSED, FALSE),
       OrderStatusTransitionCase("In Process", "create_order_in_process", 1,
                                 PROCESSING, BAD_REQUEST, INVALID_ORDER_STATUS, FALSE),
       OrderStatusTransitionCase("In Process", "create_order_in_process", 1,
                                 DRAFT, BAD_REQUEST, CANT_REOPEN, FALSE),
       OrderStatusTransitionCase("Partially Received", "create_partially_received_order", 2,
                                 DRAFT, BAD_REQUEST, CANT_REOPEN, FALSE),
       OrderStatusTransitionCase("Partially Received", "create_partially_received_order", 2,
                                 PROCESSING, BAD_REQUEST, INVALID_ORDER_STATUS, FALSE),
       OrderStatusTransitionCase("Partially Received", "create_partially_received_order", 2,
                                 CANCELED, BAD_REQUEST, INVALID_ORDER_STATUS, FALSE),
       OrderStatusTransitionCase("Received", "create_received_order", 1,
                                 DRAFT, BAD_REQUEST, CANT_REOPEN, FALSE),
       OrderStatusTransitionCase("Received", "create_received_order", 1,
                                 PROCESSING, BAD_REQUEST, INVALID_ORDER_STATUS, FALSE),
       OrderStatusTransitionCase("Received", "create_received_order", 1,
                                 CANCELED, BAD_REQUEST, INVALID_ORDER_STATUS, FALSE),
       OrderStatusTransitionCase("Canceled", "create_canceled_order", 1,
                                 CANCELED, BAD_REQUEST, INVALID_ORDER_STATUS, FALSE),
       OrderStatusTransitionCase("Canceled", "create_canceled_order", 1,
                                 PROCESSING, BAD_REQUEST, INVALID_ORDER_STATUS, FALSE) >>

\* The order status a from_state label of the tables stands for.
StatusOfFromState(from_state) ==
    IF from_state = "Draft with delivery" THEN DRAFT ELSE from_state

\* ------------------------------------------------------------------------
\* Test data: POST /api/orders/:id/receive
\* ------------------------------------------------------------------------

ReceiveProductsPositiveCase(order_products_count, receive_products_count, expected_order_status) ==
    [order_products_count |-> order_products_count,
     receive_products_count |-> receive_products_count,
     expected_order_status |-> expected_order_status]

RECEIVE_PRODUCTS_POSITIVE_CASES ==
    << ReceiveProductsPositiveCase(5, 1, PARTIALLY_RECEIVED),
       ReceiveProductsPositiveCase(5, 3, PARTIALLY_RECEIVED),
       ReceiveProductsPositiveCase(5, 5, RECEIVED) >>

ReceiveProductsNegativeStatusCase(title, order_factory, receive_products_count, expected_status, expected_error_message) ==
    [title |-> title, order_factory |-> order_factory,
     receive_products_count |-> receive_products_count,
     expected_status |-> expected_status,
     expected_error_message |-> expected_error_message]

RECEIVE_PRODUCTS_NEGATIVE_STATUS_CASES ==
    << ReceiveProductsNegativeStatusCase("Draft status", "create_order_with_delivery", 1,
                                         BAD_REQUEST, INVALID_ORDER_STATUS),
       ReceiveProductsNegativeStatusCase("Received status (already fully received)",
                                         "create_received_order", 1,
                                         BAD_REQUEST, INVALID_ORDER_STATUS) >>

\* The order status a negative receive case is about.
StatusOfTitle(title) ==
    IF title = "Draft status" THEN DRAFT ELSE RECEIVED

\* ------------------------------------------------------------------------
\* The backend as the test data describes it
\* ------------------------------------------------------------------------

NoOrder ==
    [status |-> "-", delivery |-> FALSE, manager |-> FALSE, products |-> 0, received |-> {}]

Response(status, is_success, error_message, body) ==
    [status |-> status, Body |-> "dict", IsSuccess |-> is_success,
     ErrorMessage |-> error_message, Order |-> body]

NoResponse == Response(0, FALSE, NoMessage, NoOrder)

\* The order the backend holds after it answered a request on o with response:
\* a rejected request changes nothing.
StoredOrder(o, response) ==
    IF response.Order = NoOrder THEN o ELSE response.Order

\* Variant: every draft is described as "Draft", delivery or not.
FromState_IgnoresDelivery(o) == o.status

\* The from_state label of the tables that describes order o: the tables tell
\* a draft that has a delivery from one that has none.
FromState(o) ==
    IF o.status = DRAFT
    THEN IF o.delivery THEN "Draft with delivery" ELSE "Draft"
    ELSE o.status

\* Variant: the cases are picked by target status only.
TransitionCases_AnyFromState(o, to) ==
    {c \in Range(POSITIVE_ORDER_STATUS_TRANSITIONS) \cup Range(NEGATIVE_ORDER_STATUS_TRANSITIONS) :
        c.to = to}

\* The cases of the two tables that are about a request to move o to status to.
TransitionCases(o, to) ==
    {c \in Range(POSITIVE_ORDER_STATUS_TRANSITIONS) \cup Range(NEGATIVE_ORDER_STATUS_TRANSITIONS) :
        c.from_state = FromState(o) /\ c.to = to}

\* Variant: an accepted request leaves the status as it was.
OrdersAfterTransition_KeepsStatus(o, c) == {o}

\* The Order in the body of the answer case c expects: none when the request
\* is rejected, else o in its new status.  The tables do not say whether a
\* reopened order keeps its delivery.
OrdersAfterTransition(o, c) ==
    IF c.expected_status # OK
    THEN {NoOrder}
    ELSE IF c.to = DRAFT
         THEN {[o EXCEPT !.status = DRAFT, !.delivery = d] : d \in {o.delivery, FALSE}}
         ELSE {[o EXCEPT !.status = c.to]}

\* PUT /api/orders/:id/status: the answers the tables allow; none when the
\* tables have no case for the request.
BackendUpdateStatus(o, to) ==
    UNION {
        {Response(c.expected_status, c.is_success, c.expected_error_message, o2) :
            o2 \in OrdersAfterTransition(o, c)} :
        c \in TransitionCases(o, to)}

\* Variant: the order counts as Received one product early.
ExpectedReceiveStatus_OneEarly(n, got) ==
    IF got >= n - 1 THEN RECEIVED ELSE PARTIALLY_RECEIVED

\* The status of an order of n products of which got have been received.
ExpectedReceiveStatus(n, got) ==
    IF got = n THEN RECEIVED ELSE PARTIALLY_RECEIVED

\* Variant: the status is computed from the products of this call alone.
BackendReceive_CountsThisCall(o, ids) ==
    IF \E c \in Range(RECEIVE_PRODUCTS_NEGATIVE_STATUS_CASES) : StatusOfTitle(c.title) = o.status
    THEN {Response(c.expected_status, FALSE, c.expected_error_message, NoOrder) :
            c \in {d \in Range(RECEIVE_PRODUCTS_NEGATIVE_STATUS_CASES) :
                      StatusOfTitle(d.title) = o.status}}
    ELSE IF /\ o.status \in {PROCESSING, PARTIALLY_RECEIVED}
            /\ ids # {}
            /\ ids \subseteq (1..o.products) \ o.received
         THEN {Response(OK, TRUE, NoMessage,
                 [o EXCEPT !.received = o.received \cup ids,
                           !.status = ExpectedReceiveStatus(o.products, Cardinality(ids))])}
         ELSE {}

\* Variant: the status of the order is not checked before products are taken.
BackendReceive_NoStatusCheck(o, ids) ==
    IF ids # {} /\ ids \subseteq (1..o.products) \ o.received
    THEN {Response(OK, TRUE, NoMessage,
            [o EXCEPT !.received = o.received \cup ids,
                      !.status = ExpectedReceiveStatus(o.products,
                                    Cardinality(o.received \cup ids))])}
    ELSE {Response(BAD_REQUEST, FALSE, INVALID_ORDER_STATUS, NoOrder)}

\* POST /api/orders/:id/receive with the products ids: the status is checked
\* first; an order in process takes products it has not received yet.
BackendReceive(o, ids) ==
    IF \E c \in Range(RECEIVE_PRODUCTS_NEGATIVE_STATUS_CASES) : StatusOfTitle(c.title) = o.status
    THEN {Response(c.expected_status, FALSE, c.expected_error_message, NoOrder) :
            c \in {d \in Range(RECEIVE_PRODUCTS_NEGATIVE_STATUS_CASES) :
                      StatusOfTitle(d.title) = o.status}}
    ELSE IF /\ o.status \in {PROCESSING, PARTIALLY_RECEIVED}
            /\ ids # {}
            /\ ids \subseteq (1..o.products) \ o.received
         THEN {Response(OK, TRUE, NoMessage,
                 [o EXCEPT !.received = o.received \cup ids,
                           !.status = ExpectedReceiveStatus(o.products,
                                         Cardinality(o.received \cup ids))])}
         ELSE {}

\* POST /api/orders/:id/delivery on a draft order.
BackendAddDelivery(o) ==
    Response(OK, TRUE, NoMessage, [o EXCEPT !.delivery = TRUE])

\* PUT /api/orders/:id/assign-manager/:managerId.
BackendAssignManager(o) ==
    Response(OK, TRUE, NoMessage, [o EXCEPT !.manager = TRUE])

\* POST /api/orders with n products.
BackendCreateOrder(n) ==
    Response(CREATED, TRUE, NoMessage,
             [status |-> DRAFT, delivery |-> FALSE, manager |-> FALSE,
              products |-> n, received |-> {}])

\* A keyword argument the caller leaves out, the argument None, and the
\* schema of a response that carries an order.
NotPassed == "<not passed>"
None == "None"
GET_ORDER_SCHEMA == "GET_ORDER_SCHEMA"

\* The value a keyword parameter with the default None is bound to.
Bound(arg) == IF arg = NotPassed THEN None ELSE arg

\* body.get("IsSuccess") if isinstance(body, dict) else
\* getattr(body, "IsSuccess", None)
actual_is_success(response) ==
    IF response.Body = "dict"
    THEN IF response.IsSuccess THEN "True" ELSE "False"
    ELSE None

\* body.get("ErrorMessage") if isinstance(body, dict) else
\* getattr(body, "ErrorMessage", None)
actual_error_message(response) ==
    IF response.Body = "dict" THEN response.ErrorMessage ELSE NoMessage

\* The body of the response has the shape the order schema requires: an
\* object with Order, IsSuccess and ErrorMessage.
is_valid(response, schema) ==
    response.Body = "dict" /\ response.Order # NoOrder

\* The schema branch raises instead of recording a failure when the body
\* is plain text: vars(body) of a str is a TypeError.
validate_raises(response, schema) ==
    schema # None /\ response.Body = "text"

\* The checks validate_response goes through: the status always, each of the
\* others when its parameter is not None.
checks_evaluated(is_success, error_message, schema) ==
    {"status"}
    \cup (IF is_success # None THEN {"IsSuccess"} ELSE {})
    \cup (IF error_message # None THEN {"ErrorMessage"} ELSE {})
    \cup (IF schema # None THEN {"schema"} ELSE {})

\* The comparison of one check does not hold.
check_fails(c, response, status, is_success, error_message, schema) ==
    CASE c = "status" -> response.status # status
      [] c = "IsSuccess" -> actual_is_success(response) # is_success
      [] c = "ErrorMessage" -> actual_error_message(response) # error_message
      [] OTHER -> ~is_valid(response, schema)

\* Variant: hard assertions, the first failed check ends the validation.
validate_response_StopsAtFirst(response, status, is_success, error_message, schema) ==
    LET failed == {c \in checks_evaluated(is_success, error_message, schema) :
                      check_fails(c, response, status, is_success, error_message, schema)}
    IN IF "status" \in failed THEN {"status"}
       ELSE IF "IsSuccess" \in failed THEN {"IsSuccess"}
       ELSE IF "ErrorMessage" \in failed THEN {"ErrorMessage"}
       ELSE failed

\* validate_response(response, status=..., is_success=..., error_message=...,
\* schema=...): the checks that fail.  The checks are soft (pytest_check):
\* every one is evaluated and none ends the validation.
validate_response(response, status, is_success, error_message, schema) ==
    {c \in checks_evaluated(is_success, error_message, schema) :
        check_fails(c, response, status, is_success, error_message, schema)}

\* _parse_order(response.body) raises when the body carries no Order.
ParseFails(response) == response.Order = NoOrder

\* ------------------------------------------------------------------------
\* OrdersApiService: the composite factories as the API calls they issue
\* ------------------------------------------------------------------------

\* One API call of a factory; parse says that the factory keeps the order
\* parsed from the response as its result.
Call(op, arg, parse) == [op |-> op, arg |-> arg, parse |-> parse]

create_order_and_entities(num_products) ==
    <<Call("create_customer", "-", FALSE)>>
    \o [i \in 1..num_products |-> Call("create_product", "-", FALSE)]
    \o <<Call("create_order", "-", TRUE)>>

create_order_with_delivery(num_products) ==
    create_order_and_entities(num_products)
    \o <<Call("add_delivery", "-", TRUE)>>

create_order_in_process(num_products) ==
    create_order_with_delivery(num_products)
    \o <<Call("update_status", PROCESSING, TRUE)>>

create_canceled_order(num_products) ==
    create_order_with_delivery(num_products)
    \o <<Call("update_status", CANCELED, TRUE)>>

create_partially_received_order(num_products) ==
    create_order_in_process(num_products)
    \o <<Call("receive_products", "first", TRUE)>>

\* Variant: the products are received while the order is a draft.
create_received_order_SkipsProcessing(num_products) ==
    create_order_with_delivery(num_products)
    \o <<Call("receive_products", "all", TRUE)>>

create_received_order(num_products) ==
    create_order_in_process(num_products)
    \o <<Call("receive_products", "all", TRUE)>>

\* Variant: the Received branch receives the first product only.
create_order_in_status_ReceivesFirst(num_products, status) ==
    create_order_with_delivery(num_products)
    \o <<Call("assign_manager", "-", FALSE)>>
    \o CASE status = DRAFT -> <<>>
         [] status = CANCELED -> <<Call("update_status", CANCELED, TRUE)>>
         [] status = PROCESSING -> <<Call("update_status", PROCESSING, TRUE)>>
         [] OTHER ->
                <<Call("update_status", PROCESSING, TRUE),
                  Call("receive_products", "first", TRUE)>>

\* Variant: the Canceled branch goes through In Process.
create_order_in_status_CancelsViaProcessing(num_products, status) ==
    create_order_with_delivery(num_products)
    \o <<Call("assign_manager", "-", FALSE)>>
    \o CASE status = DRAFT -> <<>>
         [] status = CANCELED ->
                <<Call("update_status", PROCESSING, TRUE),
                  Call("update_status", CANCELED, TRUE)>>
         [] status = PROCESSING -> <<Call("update_status", PROCESSING, TRUE)>>
         [] status = PARTIALLY_RECEIVED ->
                <<Call("update_status", PROCESSING, TRUE),
                  Call("receive_products", "first", TRUE)>>
         [] OTHER ->
                <<Call("update_status", PROCESSING, TRUE),
                  Call("receive_products", "all", TRUE)>>

\* Variant: the manager is assigned after the status calls.
create_order_in_status_ManagerLast(num_products, status) ==
    create_order_with_delivery(num_products)
    \o CASE status = DRAFT -> <<>>
         [] status = CANCELED -> <<Call("update_status", CANCELED, TRUE)>>
         [] status = PROCESSING -> <<Call("update_status", PROCESSING, TRUE)>>
         [] status = PARTIALLY_RECEIVED ->
                <<Call("update_status", PROCESSING, TRUE),
                  Call("receive_products", "first", TRUE)>>
         [] OTHER ->
                <<Call("update_status", PROCESSING, TRUE),
                  Call("receive_products", "all", TRUE)>>
    \o <<Call("assign_manager", "-", FALSE)>>

create_order_in_status(num_products, status) ==
    create_order_with_delivery(num_products)
    \o <<Call("assign_manager", "-", FALSE)>>
    \o CASE status = DRAFT -> <<>>
         [] status = CANCELED -> <<Call("update_status", CANCELED, TRUE)>>
         [] status = PROCESSING -> <<Call("update_status", PROCESSING, TRUE)>>
         [] status = PARTIALLY_RECEIVED ->
                <<Call("update_status", PROCESSING, TRUE),
                  Call("receive_products", "first", TRUE)>>
         [] status = RECEIVED ->
                <<Call("update_status", PROCESSING, TRUE),
                  Call("receive_products", "all", TRUE)>>
         [] OTHER -> <<Call("update_status", status, TRUE)>>

Factories ==
    {"create_order_and_entities", "create_order_with_delivery", "create_order_in_process",
     "create_canceled_order", "create_partially_received_order", "create_received_order",
     "create_order_in_status"}

\* The status a factory is meant to leave the order in.
TargetStatus(name, status) ==
    CASE name = "create_order_in_status" -> status
      [] name = "create_order_in_process" -> PROCESSING
      [] name = "create_canceled_order" -> CANCELED
      [] name = "create_partially_received_order" -> PARTIALLY_RECEIVED
      [] name = "create_received_order" -> RECEIVED
      [] OTHER -> DRAFT

\* getattr(orders_service, factory_name)(token, products_count)
PlanOf(name, num_products, status) ==
    CASE name = "create_order_and_entities" -> create_order_and_entities(num_products)
      [] name = "create_order_with_delivery" -> create_order_with_delivery(num_products)
      [] name = "create_order_in_process" -> create_order_in_process(num_products)
      [] name = "create_canceled_order" -> create_canceled_order(num_products)
      [] name = "create_partially_received_order" -> create_partially_received_order(num_products)
      [] name = "create_received_order" -> create_received_order(num_products)
      [] OTHER -> create_order_in_status(num_products, status)

\* ------------------------------------------------------------------------
\* State
\* ------------------------------------------------------------------------

VARIABLES
    pc,              \* "idle", "running" (inside a factory), "returned", "failed"
    factory,         \* the factory the test called, with its arguments
    plan,            \* the API calls the factory has still to issue
    calls,           \* the API calls the factory has issued, in order
    created,         \* customer and products that exist on the backend
    order,           \* the order as the backend holds it
    parsed,          \* the order the factory parsed last from a response
    entities_store,  \* OrdersApiService.entities_store
    failures,        \* the soft checks of validate_response that failed so far
    last,            \* the last request the test itself sent, with its response
    nreq             \* number of requests the test itself has sent

\* The test session: fixtures, tests and their teardown
VARIABLES
    s_pc,            \* "between" tests, or the step the running test is at
    test,            \* the running (or last) test: its number, whether it uses cleanup
    ntests,          \* number of tests started in this session
    contexts,        \* number of request contexts created in this session
    context_of,      \* test number -> the request context the test used (0: none yet)
    service_store,   \* the EntitiesStore orders_service holds, with the test it was made for
    made,            \* the entities created on the backend through orders_service
    deletes,         \* the delete calls issued so far, each with the test whose teardown sent it
    loop,            \* full_delete: the loop it is in (1..3)
    pending,         \* full_delete: the ids its current loop has still to delete
    wanted,          \* create_order_and_entities: num_products
    product_ids,     \* create_order_and_entities: the local list product_ids
    recorded,        \* every id orders_service has put into a store so far
    t_outcome,       \* the running (or last) teardown: the first id whose delete was rejected, whether a delete raised
    at_teardown      \* the ids the store held when the running (or last) teardown began

\* One call of validate_response
VARIABLES
    v_pc,            \* "ready": a response has arrived; "done": it has been validated
    v_response,      \* the response
    v_call,          \* who validates it, and the arguments as the caller wrote them
    v_evaluated,     \* the checks validate_response went through
    v_failed,        \* the checks that failed
    v_raised         \* validate_response ended with an exception

\* One run of scripts/notify_telegram.py
VARIABLES
    n_pc,            \* "idle", "start", "built", "posted", "exited"
    n_args,          \* the command-line arguments
    n_env,           \* whether TELEGRAM_BOT_TOKEN and TELEGRAM_CHAT_ID are set
    n_message,       \* the lines of the message
    n_sent,          \* the message reached the chat
    n_log,           \* what post_notification logged
    n_raised,        \* an exception left post_notification
    n_exit           \* the exit code of the script (-1: still running)

\* One attachment of PlaywrightApiClient
VARIABLES
    m_pc,            \* "idle", "ready", "attached"
    m_field,         \* a field of the payload: its key and its string value
    m_attachment     \* the text attached to the report

\* The page of one UI test: the routes Mock has registered on it, in
\* registration order, and how the last browser request was answered.
VARIABLES
    mock_routes,
    mock_request

\* The entities of the delete tests: those present on the backend, those a
\* delete call removed, the ids handed out so far and the last response.
VARIABLES
    db,
    removed,
    next_id,
    crud_last

\* The edit-products modal: its product rows, and edit_order's position,
\* argument, row count read at the start, loop index, indices still to delete
\* and the rows at the click on save.
VARIABLES
    e_pc,
    rows,
    e_products,
    current_rows_count,
    e_i,
    e_delete,
    e_saved

\* The positive add-delivery cases: the day it is, the final dates of
\* the cases as built at import, the days that passed since, and the case
\* the test last ran.
VARIABLES
    d_pc,
    today,
    d_cases,
    d_passed,
    d_case

orderVars ==
    <<pc, factory, plan, calls, created, order, parsed, entities_store, failures, last, nreq>>

sessionVars ==
    <<s_pc, test, ntests, contexts, context_of, service_store, made, deletes, loop, pending,
      wanted, product_ids, recorded, t_outcome, at_teardown>>

validateVars == <<v_pc, v_response, v_call, v_evaluated, v_failed, v_raised>>

notifyVars == <<n_pc, n_args, n_env, n_message, n_sent, n_log, n_raised, n_exit>>

maskVars == <<m_pc, m_field, m_attachment>>

mockVars == <<mock_routes, mock_request>>

crudVars == <<db, removed, next_id, crud_last>>

modalVars == <<e_pc, rows, e_products, current_rows_count, e_i, e_delete, e_saved>>

datesVars == <<d_pc, today, d_cases, d_passed, d_case>>

vars == <<orderVars, sessionVars, validateVars, notifyVars, maskVars, mockVars, crudVars, modalVars, datesVars>>

\* The variables the order life cycle leaves alone.
notOrderVars == <<sessionVars, validateVars, notifyVars, maskVars, mockVars, crudVars, modalVars, datesVars>>

\* The variables the test session leaves alone.
notSessionVars == <<orderVars, validateVars, notifyVars, maskVars, mockVars, crudVars, modalVars, datesVars>>

\* The variables a call of validate_response leaves alone.
notValidateVars == <<orderVars, sessionVars, notifyVars, maskVars, mockVars, crudVars, modalVars, datesVars>>

\* The variables the notification script leaves alone.
notNotifyVars == <<orderVars, sessionVars, validateVars, maskVars, mockVars, crudVars, modalVars, datesVars>>

\* The variables an attachment leaves alone.
notMaskVars == <<orderVars, sessionVars, validateVars, notifyVars, mockVars, crudVars, modalVars, datesVars>>

\* The variables the mock model leaves alone.
notMockVars == <<orderVars, sessionVars, validateVars, notifyVars, maskVars, crudVars, modalVars, datesVars>>

\* The variables the delete-test model leaves alone.
notCrudVars == <<orderVars, sessionVars, validateVars, notifyVars, maskVars, mockVars, modalVars, datesVars>>

\* The variables the edit-products modal model leaves alone.
notModalVars == <<orderVars, sessionVars, validateVars, notifyVars, maskVars, mockVars, crudVars, datesVars>>

\* The variables the delivery-date model leaves alone.
notDatesVars == <<orderVars, sessionVars, validateVars, notifyVars, maskVars, mockVars, crudVars, modalVars>>

NoFactory == [name |-> "-", num_products |-> 0, status |-> "-"]

NoRequest ==
    [op |-> "-", to |-> "-", ids |-> {}, before |-> NoOrder, response |-> NoResponse]

OrderInit ==
    /\ pc = "idle"
    /\ factory = NoFactory
    /\ plan = <<>>
    /\ calls = <<>>
    /\ created = [customer |-> FALSE, products |-> 0]
    /\ order = NoOrder
    /\ parsed = NoOrder
    /\ entities_store = [customers |-> {}, products |-> {}, orders |-> {}]
    /\ failures = {}
    /\ last = NoRequest
    /\ nreq = 0

\* A session runs at most MaxTests tests; a test of the session creates orders
\* of at most MaxSessionProducts products.
MaxTests == 2
MaxSessionProducts == 2

\* EntitiesStore(): a new, empty store; t is the test whose cleanup fixture
\* made it, 0 for the one OrdersApiService.__init__ makes.
EntitiesStore(t) == [owner |-> t, orders |-> {}, customers |-> {}, products |-> {}]

\* The id of the n-th entity of a kind that test t created.
Entity(kind, t, n) == [kind |-> kind, test |-> t, n |-> n]

NoTest == [id |-> 0, cleanup |-> FALSE]

NoEntity == Entity("-", 0, 0)

\* A teardown in which no delete call has failed.
NoOutcome == [rejected |-> NoEntity, error |-> FALSE]

\* The session before its first test: the session fixtures are made when the
\* first test asks for them; orders_service then holds the store of __init__.
SessionInit ==
    /\ s_pc = "between"
    /\ test = NoTest
    /\ ntests = 0
    /\ contexts = 0
    /\ context_of = [t \in 1..MaxTests |-> 0]
    /\ service_store = EntitiesStore(0)
    /\ made = {}
    /\ deletes = <<>>
    /\ loop = 0
    /\ pending = {}
    /\ wanted = 0
    /\ product_ids = {}
    /\ recorded = {}
    /\ t_outcome = NoOutcome
    /\ at_teardown = {}

NoCall ==
    [caller |-> "-", status |-> 0, is_success |-> NotPassed, error_message |-> NotPassed,
     schema |-> NotPassed]

\* No response to validate has arrived.
ValidateIdle ==
    /\ v_pc = "idle"
    /\ v_response = NoResponse
    /\ v_call = NoCall
    /\ v_evaluated = {}
    /\ v_failed = {}
    /\ v_raised = FALSE

\* An argument of the script that is not given (argparse default None).
NoCount == -1
NoText == ""

NoArgs ==
    [report_url |-> NoText, passed |-> NoCount, failed |-> NoCount, skipped |-> NoCount,
     env |-> NoText]

\* The notification script is not running.
NotifyIdle ==
    /\ n_pc = "idle"
    /\ n_args = NoArgs
    /\ n_env = [TELEGRAM_BOT_TOKEN |-> FALSE, TELEGRAM_CHAT_ID |-> FALSE]
    /\ n_message = <<>>
    /\ n_sent = FALSE
    /\ n_log = "-"
    /\ n_raised = FALSE
    /\ n_exit = -1

\* Nothing is being attached.
MaskIdle ==
    /\ m_pc = "idle"
    /\ m_field = [key |-> "-", value |-> <<>>]
    /\ m_attachment = <<>>

\* A page with no browser request made yet.
NoBrowserRequest == [url |-> "", backend |-> FALSE, body |-> "", status |-> 0, routes |-> 0]

\* A fresh page: Mock(page) registers nothing on construction.
MockIdle ==
    /\ mock_routes = <<>>
    /\ mock_request = NoBrowserRequest

\* No request of a delete test answered yet.
NoCrud == [op |-> "-", kind |-> "-", id |-> 0, status |-> 0]

\* Nothing created by a delete test.
CrudIdle ==
    /\ db = {}
    /\ removed = {}
    /\ next_id = 1
    /\ crud_last = NoCrud

\* The modal is not open.
ModalIdle ==
    /\ e_pc = "closed"
    /\ rows = <<>>
    /\ e_products = <<>>
    /\ current_rows_count = 0
    /\ e_i = 0
    /\ e_delete = <<>>
    /\ e_saved = <<>>

\* No delivery case run yet.
NoCase == [id |-> "-", final_date |-> <<0, 0, 0>>, run_on |-> <<0, 0, 0>>]

\* The delivery test data has not been imported.
DatesIdle ==
    /\ d_pc = "idle"
    /\ today = 0
    /\ d_cases = <<>>
    /\ d_passed = 0
    /\ d_case = NoCase

Init == OrderInit /\ SessionInit /\ ValidateIdle /\ NotifyIdle /\ MaskIdle /\ MockIdle /\ CrudIdle /\ ModalIdle /\ DatesIdle

\* ------------------------------------------------------------------------
\* A test calls a factory
\* ------------------------------------------------------------------------

Start(name, num_products, status) ==
    /\ UNCHANGED notOrderVars
    /\ pc = "idle"
    /\ factory' = [name |-> name, num_products |-> num_products,
                   status |-> TargetStatus(name, status)]
    /\ plan' = PlanOf(name, num_products, status)
    /\ pc' = "running"
    /\ UNCHANGED <<calls, created, order, parsed, entities_store, failures, last, nreq>>

\* The next API call of the running factory is op.
NextCall(op) ==
    /\ pc = "running"
    /\ plan # <<>>
    /\ Head(plan).op = op

\* The factory has issued the head of its plan and got response: it records
\* the soft checks that fail and goes on; where it parses the order from the
\* body, a body without Order raises and ends the factory.
Issued(response, status) ==
    /\ calls' = Append(calls, Head(plan))
    /\ failures' = failures \cup
          validate_response(response, status, "True", None,
                            IF Head(plan).op = "add_delivery" THEN None ELSE GET_ORDER_SCHEMA)
    /\ IF Head(plan).parse /\ ParseFails(response)
       THEN /\ pc' = "failed"
            /\ plan' = <<>>
            /\ parsed' = parsed
       ELSE /\ pc' = "running"
            /\ plan' = Tail(plan)
            /\ parsed' = IF Head(plan).parse THEN response.Order ELSE parsed

\* customers_service.create, entities_store.customers.add
CreateCustomer ==
    /\ UNCHANGED notOrderVars
    /\ NextCall("create_customer")
    /\ created' = [created EXCEPT !.customer = TRUE]
    /\ entities_store' = [entities_store EXCEPT !.customers = @ \cup {"customer"}]
    /\ calls' = Append(calls, Head(plan))
    /\ plan' = Tail(plan)
    /\ UNCHANGED <<pc, factory, order, parsed, failures, last, nreq>>

\* products_service.create in the loop; entities_store.products.update after
\* the last product.
CreateProduct ==
    /\ UNCHANGED notOrderVars
    /\ NextCall("create_product")
    /\ created' = [created EXCEPT !.products = @ + 1]
    /\ entities_store' =
          IF created.products + 1 = factory.num_products
          THEN [entities_store EXCEPT !.products = @ \cup (1..factory.num_products)]
          ELSE entities_store
    /\ calls' = Append(calls, Head(plan))
    /\ plan' = Tail(plan)
    /\ UNCHANGED <<pc, factory, order, parsed, failures, last, nreq>>

\* OrdersApiService.create, entities_store.orders.add
CreateOrder ==
    /\ UNCHANGED notOrderVars
    /\ NextCall("create_order")
    /\ LET response == BackendCreateOrder(created.products)
       IN /\ order' = StoredOrder(order, response)
          /\ Issued(response, CREATED)
          /\ entities_store' =
                IF ~ParseFails(response)
                THEN [entities_store EXCEPT !.orders = @ \cup {"order"}]
                ELSE entities_store
    /\ UNCHANGED <<factory, created, last, nreq>>

\* orders_api.add_delivery in create_order_with_delivery
AddDelivery ==
    /\ UNCHANGED notOrderVars
    /\ NextCall("add_delivery")
    /\ LET response == BackendAddDelivery(order)
       IN /\ order' = StoredOrder(order, response)
          /\ Issued(response, OK)
    /\ UNCHANGED <<factory, created, entities_store, last, nreq>>

\* orders_api.assign_manager in create_order_in_status
AssignManager ==
    /\ UNCHANGED notOrderVars
    /\ NextCall("assign_manager")
    /\ LET response == BackendAssignManager(order)
       IN /\ order' = StoredOrder(order, response)
          /\ Issued(response, OK)
    /\ UNCHANGED <<factory, created, entities_store, last, nreq>>

\* OrdersApiService.update_status
UpdateStatus ==
    /\ UNCHANGED notOrderVars
    /\ NextCall("update_status")
    /\ \E response \in BackendUpdateStatus(order, Head(plan).arg) :
          /\ order' = StoredOrder(order, response)
          /\ Issued(response, OK)
    /\ UNCHANGED <<factory, created, entities_store, last, nreq>>

\* The product ids a factory passes to receive_products: the first product
\* of the order it parsed, or all of them.
ReceiveIds(arg, o) ==
    IF arg = "first" THEN {1} ELSE 1..o.products

\* orders_api.receive_products in the factories
ReceiveProducts ==
    /\ UNCHANGED notOrderVars
    /\ NextCall("receive_products")
    /\ \E response \in BackendReceive(order, ReceiveIds(Head(plan).arg, parsed)) :
          /\ order' = StoredOrder(order, response)
          /\ Issued(response, OK)
    /\ UNCHANGED <<factory, created, entities_store, last, nreq>>

\* The factory returns the order it parsed last.
Return ==
    /\ UNCHANGED notOrderVars
    /\ pc = "running"
    /\ plan = <<>>
    /\ pc' = "returned"
    /\ UNCHANGED <<factory, plan, calls, created, order, parsed, entities_store, failures, last, nreq>>

\* ------------------------------------------------------------------------
\* Requests of the test itself on the order the factory returned
\* ------------------------------------------------------------------------

\* orders_api.update_status(order.id, case.to, token)
TestUpdateStatus(to) ==
    /\ UNCHANGED notOrderVars
    /\ pc = "returned"
    /\ nreq < MaxTestRequests
    /\ \E response \in BackendUpdateStatus(order, to) :
          /\ order' = StoredOrder(order, response)
          /\ last' = [op |-> "update_status", to |-> to, ids |-> {},
                      before |-> order, response |-> response]
    /\ nreq' = nreq + 1
    /\ UNCHANGED <<pc, factory, plan, calls, created, parsed, entities_store, failures>>

\* orders_api.receive_products(order.id, product_ids, token)
TestReceive(ids) ==
    /\ UNCHANGED notOrderVars
    /\ pc = "returned"
    /\ nreq < MaxTestRequests
    /\ \E response \in BackendReceive(order, ids) :
          /\ order' = StoredOrder(order, response)
          /\ last' = [op |-> "receive_products", to |-> "-", ids |-> ids,
                      before |-> order, response |-> response]
    /\ nreq' = nreq + 1
    /\ UNCHANGED <<pc, factory, plan, calls, created, parsed, entities_store, failures>>

Next ==
    \/ \E name \in Factories, n \in 1..MaxProducts, status \in OrderStatus :
          Start(name, n, status)
    \/ CreateCustomer
    \/ CreateProduct
    \/ CreateOrder
    \/ AddDelivery
    \/ AssignManager
    \/ UpdateStatus
    \/ ReceiveProducts
    \/ Return
    \/ \E to \in OrderStatus : TestUpdateStatus(to)
    \/ \E ids \in (SUBSET (1..order.products)) \ {{}} : TestReceive(ids)

Spec == Init /\ [][Next]_vars

TypeOK ==
    /\ pc \in {"idle", "running", "returned", "failed"}
    /\ order.status \in OrderStatus \cup {"-"}
    /\ order.received \subseteq 1..order.products
    /\ nreq \in 0..MaxTestRequests
    /\ failures \subseteq {"status", "IsSuccess", "ErrorMessage", "schema"}

\* ------------------------------------------------------------------------
\* Properties
\* ------------------------------------------------------------------------

AllTransitionCases ==
    Range(POSITIVE_ORDER_STATUS_TRANSITIONS) \cup Range(NEGATIVE_ORDER_STATUS_TRANSITIONS)

\* The tables have a case for a request to move an order of status from to to.
HasCase(from, to) ==
    \E c \in AllTransitionCases : StatusOfFromState(c.from_state) = from /\ c.to = to

\* The statuses the tables use as the target of a status-change request.
RequestedTargets == {DRAFT, PROCESSING, CANCELED}

\* The test sent a status-change request to to as its last request.
LastStatusRequest(to) == last.op = "update_status" /\ last.to = to

\* C1 as stated: for every ordered pair (from, to) of the five order statuses
\* the positive or the negative table has a case (looked at once an order
\* exists).
C1_TablesExhaustive ==
    order.status \in OrderStatus =>
        \A from \in OrderStatus, to \in OrderStatus : HasCase(from, to)

\* C1 amended: for every order status from and every target to among Draft,
\* In Process and Canceled the positive or the negative table has a case, no
\* case has another target, and every status-change request a test got
\* answered is one the tables have a case for.
C1_TablesCoverRequestedTargets ==
    /\ \A from \in OrderStatus, to \in RequestedTargets : HasCase(from, to)
    /\ \A c \in AllTransitionCases : c.to \in RequestedTargets
    /\ last.op = "update_status" => HasCase(last.before.status, last.to)

C1_Witness ==
    /\ LastStatusRequest(CANCELED)
    /\ last.before.status = RECEIVED
    /\ last.response.status = BAD_REQUEST

\* C2: a request to move a Draft order to In Process is answered 200 with the
\* order In Process exactly when the order has a delivery, and 400 when it has
\* none; the backend has an answer for either kind of draft.
C2_ProcessingNeedsDelivery ==
    /\ (pc = "returned" /\ order.status = DRAFT) =>
          /\ BackendUpdateStatus(order, PROCESSING) # {}
          /\ \A r \in BackendUpdateStatus(order, PROCESSING) :
                /\ r.status = OK <=> order.delivery
                /\ ~order.delivery => r.status = BAD_REQUEST /\ StoredOrder(order, r) = order
                /\ r.status = OK => r.Order.status = PROCESSING
    /\ (LastStatusRequest(PROCESSING) /\ last.before.status = DRAFT) =>
          /\ last.response.status = OK <=> last.before.delivery
          /\ last.response.status \in {OK, BAD_REQUEST}
          /\ order.status = (IF last.before.delivery THEN PROCESSING ELSE DRAFT)

C2_Witness ==
    /\ LastStatusRequest(PROCESSING)
    /\ last.before.status = DRAFT
    /\ last.before.delivery
    /\ last.response.status = OK
    /\ order.status = PROCESSING

C4_ReceivedIsFinal ==
    /\ order.status \in {PARTIALLY_RECEIVED, RECEIVED} =>
          \A to \in RequestedTargets :
              /\ BackendUpdateStatus(order, to) # {}
              /\ \A r \in BackendUpdateStatus(order, to) :
                    r.status = BAD_REQUEST /\ StoredOrder(order, r) = order
    /\ (last.op = "update_status"
          /\ last.before.status \in {PARTIALLY_RECEIVED, RECEIVED}) =>
          /\ last.response.status = BAD_REQUEST
          /\ order.status = last.before.status

C4_Witness ==
    /\ LastStatusRequest(CANCELED)
    /\ last.before.status = PARTIALLY_RECEIVED
    /\ last.response.status = BAD_REQUEST
    /\ nreq >= 2
    /\ factory.name = "create_order_in_process"

\* C5: a request to move an order to Canceled is answered 200, with the order
\* Canceled, from Draft (with or without a delivery) and from In Process, and
\* 400 from Partially Received, Received and Canceled.
C5_CancelRule ==
    /\ (pc = "returned" /\ order.status \in OrderStatus) =>
          /\ BackendUpdateStatus(order, CANCELED) # {}
          /\ \A r \in BackendUpdateStatus(order, CANCELED) :
                IF order.status \in {DRAFT, PROCESSING}
                THEN r.status = OK /\ r.Order.status = CANCELED
                ELSE r.status = BAD_REQUEST /\ StoredOrder(order, r) = order
    /\ LastStatusRequest(CANCELED) =>
          IF last.before.status \in {DRAFT, PROCESSING}
          THEN last.response.status = OK /\ order.status = CANCELED
          ELSE last.response.status = BAD_REQUEST /\ order.status = last.before.status

C5_Witness ==
    /\ LastStatusRequest(CANCELED)
    /\ last.before.status = PROCESSING
    /\ last.response.status = OK
    /\ order.status = CANCELED

\* C6: receiving k of the n products of an In Process order (1 <= k <= n <= 5)
\* is answered 200 and leaves the order Partially Received when k < n and
\* Received when k = n.
C6_ReceiveKofN ==
    /\ (pc = "returned" /\ order.status = PROCESSING) =>
          \A ids \in (SUBSET (1..order.products)) \ {{}} :
              /\ BackendReceive(order, ids) # {}
              /\ \A r \in BackendReceive(order, ids) :
                    /\ r.status = OK
                    /\ r.Order.status =
                          (IF Cardinality(ids) < order.products
                           THEN PARTIALLY_RECEIVED ELSE RECEIVED)
    /\ (last.op = "receive_products" /\ last.before.status = PROCESSING) =>
          /\ last.response.status = OK
          /\ order.status =
                (IF Cardinality(last.ids) < last.before.products
                 THEN PARTIALLY_RECEIVED ELSE RECEIVED)

C6_Witness ==
    /\ last.op = "receive_products"
    /\ last.before.status = PROCESSING
    /\ last.before.products = 5
    /\ Cardinality(last.ids) = 3
    /\ order.status = PARTIALLY_RECEIVED

\* C7: after any sequence of receive calls the order is Received exactly when
\* every product has been received and Partially Received while some but not
\* all have been; a receive call never takes a received product back.
C7_ReceivedIffAllReceived ==
    /\ order.status = RECEIVED <=>
          (order.products > 0 /\ order.received = 1..order.products)
    /\ order.status = PARTIALLY_RECEIVED <=>
          (order.received # {} /\ order.received # 1..order.products)
    /\ last.op = "receive_products" => last.before.received \subseteq order.received

C7_Witness ==
    /\ last.op = "receive_products"
    /\ last.before.status = PARTIALLY_RECEIVED
    /\ Cardinality(last.before.received) >= 2
    /\ order.status = RECEIVED
    /\ nreq >= 2

\* C8: a receive request on a Draft order (with or without a delivery) or on a
\* Received order is answered 400 "Invalid order status" and changes nothing.
C8_ReceiveWrongStatus ==
    /\ (pc = "returned" /\ order.status \in {DRAFT, RECEIVED}) =>
          \A ids \in (SUBSET (1..order.products)) \ {{}} :
              /\ BackendReceive(order, ids) # {}
              /\ \A r \in BackendReceive(order, ids) :
                    /\ r.status = BAD_REQUEST
                    /\ r.ErrorMessage = INVALID_ORDER_STATUS
                    /\ StoredOrder(order, r) = order
    /\ (last.op = "receive_products" /\ last.before.status \in {DRAFT, RECEIVED}) =>
          /\ last.response.status = BAD_REQUEST
          /\ last.response.ErrorMessage = INVALID_ORDER_STATUS
          /\ order = last.before

C8_Witness ==
    /\ last.op = "receive_products"
    /\ last.before.status = DRAFT
    /\ last.before.delivery
    /\ last.response.status = BAD_REQUEST

\* The factories C9 is about.
StatusFactories ==
    {"create_order_in_status", "create_order_in_process", "create_partially_received_order",
     "create_received_order", "create_canceled_order"}

\* C9 as stated: the order a status factory returns has the target status, for
\* every target status and every product count from 1 to 5.
C9_ReturnedHasTargetStatus ==
    (pc = "returned" /\ factory.name \in StatusFactories) =>
        parsed.status = factory.status

\* C9 amended: the order a status factory returns has the target status, for
\* every target status and every product count from 1 to 5, except that for
\* the target Partially Received with one product the order returned is
\* Received.
C9_ReturnedHasTargetStatusUnlessSingleProduct ==
    (pc = "returned" /\ factory.name \in StatusFactories) =>
        /\ nreq = 0 => parsed.status = order.status
        /\ parsed.status =
              (IF factory.status = PARTIALLY_RECEIVED /\ factory.num_products = 1
               THEN RECEIVED ELSE factory.status)

C9_Witness ==
    /\ pc = "returned"
    /\ factory.name = "create_order_in_status"
    /\ factory.status = PARTIALLY_RECEIVED
    /\ factory.num_products = 5
    /\ parsed.status = PARTIALLY_RECEIVED

\* Every call op1 the factory issued comes before every call op2 it issued.
Before(op1, op2) ==
    \A i, j \in 1..Len(calls) :
        (calls[i].op = op1 /\ calls[j].op = op2) => i < j

\* C10 as stated: create_order_in_status assigns the manager first, then
\* schedules the delivery, then changes the status, then receives products.
C10_ManagerBeforeDelivery ==
    factory.name = "create_order_in_status" =>
        /\ Before("assign_manager", "add_delivery")
        /\ Before("add_delivery", "update_status")
        /\ Before("update_status", "receive_products")

\* C10 amended: create_order_in_status schedules the delivery first, then
\* assigns the manager, then changes the status, then receives products.
C10_DeliveryBeforeManager ==
    factory.name = "create_order_in_status" =>
        /\ Before("add_delivery", "assign_manager")
        /\ Before("assign_manager", "update_status")
        /\ Before("update_status", "receive_products")
        /\ pc = "returned" =>
              /\ \E i \in 1..Len(calls) : calls[i].op = "add_delivery"
              /\ \E i \in 1..Len(calls) : calls[i].op = "assign_manager"

C10_Witness ==
    /\ pc = "returned"
    /\ factory.name = "create_order_in_status"
    /\ factory.status = RECEIVED
    /\ \A op \in {"add_delivery", "assign_manager", "update_status", "receive_products"} :
          \E i \in 1..Len(calls) : calls[i].op = op

\* ------------------------------------------------------------------------
\* C11: is the call sequence of create_order_in_status minimal?
\* ------------------------------------------------------------------------

\* The requests a factory sends on an order that exists.
OrderOps == {"add_delivery", "assign_manager", "update_status", "receive_products"}

\* The requests that change the status of an order.
StatusOps == {"update_status", "receive_products"}

\* The number of calls of the sequence cs whose operation is in ops.
NumCalls(cs, ops) == Cardinality({i \in 1..Len(cs) : cs[i].op \in ops})

\* The operations of ops in cs, in the order of cs.
OpsOf(cs, ops) == SelectSeq([i \in 1..Len(cs) |-> cs[i].op], LAMBDA op : op \in ops)

\* The orders the backend can hold after one more request on order o.
AfterOneRequest(o) ==
    {StoredOrder(o, BackendAddDelivery(o)), StoredOrder(o, BackendAssignManager(o))}
    \cup {StoredOrder(o, r) : r \in UNION {BackendUpdateStatus(o, to) : to \in OrderStatus}}
    \cup {StoredOrder(o, r) :
            r \in UNION {BackendReceive(o, ids) : ids \in (SUBSET (1..o.products)) \ {{}}}}

\* The orders the backend can hold after at most k requests on order o.
RECURSIVE OrdersWithin(_, _)
OrdersWithin(k, o) ==
    IF k = 0
    THEN {o}
    ELSE LET prev == OrdersWithin(k - 1, o)
         IN prev \cup UNION {AfterOneRequest(p) : p \in prev}

\* Some sequence of at most k requests takes order o to status.
ReachesWithin(k, o, status) == \E p \in OrdersWithin(k, o) : p.status = status

\* The order create_order_in_status has after create_order_with_delivery
\* and assign_manager.
OrderWithDeliveryAndManager(n) ==
    [BackendCreateOrder(n).Order EXCEPT !.delivery = TRUE, !.manager = TRUE]

\* create_order_in_status has returned and the test has sent nothing yet.
InStatusReturned ==
    pc = "returned" /\ factory.name = "create_order_in_status" /\ nreq = 0

api_request_context_scope_Function == "function"

\* @pytest.fixture(scope="session") def api_request_context
api_request_context_scope == "session"

\* Variant: the cleanup fixture leaves the store of the service in place.
cleanup_store_KeepsStore(t, store) == store

\* cleanup, before the yield: store = EntitiesStore();
\* orders_service.entities_store = store
cleanup_store(t, store) == EntitiesStore(t)

\* Variant: full_delete has no loop over the products.
full_delete_SkipsProducts == <<"order", "customer">>

\* Variant: full_delete deletes products first and orders last.
full_delete_ProductsFirst == <<"product", "customer", "order">>

\* full_delete: the kinds of entities its three loops delete, in order.
full_delete == <<"order", "customer", "product">>

\* The ids of a kind that a store holds.
StoreIds(store, kind) ==
    CASE kind = "order" -> store.orders
      [] kind = "customer" -> store.customers
      [] OTHER -> store.products

\* The ids a store holds.
AllStoreIds(store) == store.orders \cup store.customers \cup store.products

\* Setup of the next test: it gets the request context (made now if there is
\* none, or if the fixture is function-scoped), and the cleanup fixture, when
\* the test uses it, puts a new store into orders_service.
SetupTest(use_cleanup) ==
    /\ s_pc = "between"
    /\ ntests < MaxTests
    /\ ntests' = ntests + 1
    /\ test' = [id |-> ntests + 1, cleanup |-> use_cleanup]
    /\ contexts' = IF contexts = 0 \/ api_request_context_scope = "function"
                   THEN contexts + 1
                   ELSE contexts
    /\ context_of' = [context_of EXCEPT ![ntests + 1] = contexts']
    /\ service_store' = IF use_cleanup
                        THEN cleanup_store(ntests + 1, service_store)
                        ELSE service_store
    /\ s_pc' = "body"
    /\ UNCHANGED <<made, deletes, loop, pending, wanted, product_ids>>
    /\ t_outcome' = NoOutcome
    /\ at_teardown' = {}
    /\ UNCHANGED recorded
    /\ UNCHANGED notSessionVars

\* The test calls orders_service.create_order_and_entities(token, n).
CallFactory(n) ==
    /\ s_pc = "body"
    /\ s_pc' = "create_customer"
    /\ wanted' = n
    /\ product_ids' = {}
    /\ UNCHANGED <<test, ntests, contexts, context_of, service_store, made, deletes, loop, pending>>
    /\ UNCHANGED <<recorded, t_outcome, at_teardown>>
    /\ UNCHANGED notSessionVars

\* customer = self._customers_service.create(token);
\* self.entities_store.customers.add(customer.id).  When the backend rejects
\* the request, create raises on the body and the test body ends.
FactoryCreateCustomer(ok) ==
    /\ s_pc = "create_customer"
    /\ IF ok
       THEN LET e == Entity("customer", test.id, 1)
            IN /\ made' = made \cup {e}
               /\ service_store' = [service_store EXCEPT !.customers = @ \cup {e}]
               /\ s_pc' = "create_product"
       ELSE /\ s_pc' = "body_done"
            /\ UNCHANGED <<made, service_store>>
    /\ UNCHANGED <<test, ntests, contexts, context_of, deletes, loop, pending, wanted, product_ids>>
    /\ recorded' = recorded \cup AllStoreIds(service_store')
    /\ UNCHANGED <<t_outcome, at_teardown>>
    /\ UNCHANGED notSessionVars

\* One round of the loop: product = self._products_service.create(token);
\* product_ids.append(product.id); after the last round
\* self.entities_store.products.update(product_ids).
FactoryCreateProduct(ok) ==
    /\ s_pc = "create_product"
    /\ IF ok
       THEN LET e == Entity("product", test.id, Cardinality(product_ids) + 1)
                ids == product_ids \cup {e}
            IN /\ made' = made \cup {e}
               /\ product_ids' = ids
               /\ IF Cardinality(ids) = wanted
                  THEN /\ service_store' = [service_store EXCEPT !.products = @ \cup ids]
                       /\ s_pc' = "create_order"
                  ELSE UNCHANGED <<service_store, s_pc>>
       ELSE /\ s_pc' = "body_done"
            /\ UNCHANGED <<made, service_store, product_ids>>
    /\ UNCHANGED <<test, ntests, contexts, context_of, deletes, loop, pending, wanted>>
    /\ recorded' = recorded \cup AllStoreIds(service_store')
    /\ UNCHANGED <<t_outcome, at_teardown>>
    /\ UNCHANGED notSessionVars

\* order = self.create(token, customer.id, product_ids);
\* self.entities_store.orders.add(order.id); the factory returns and the
\* body of the test ends.
FactoryCreateOrder(ok) ==
    /\ s_pc = "create_order"
    /\ IF ok
       THEN LET e == Entity("order", test.id, 1)
            IN /\ made' = made \cup {e}
               /\ service_store' = [service_store EXCEPT !.orders = @ \cup {e}]
       ELSE UNCHANGED <<made, service_store>>
    /\ s_pc' = "body_done"
    /\ UNCHANGED <<test, ntests, contexts, context_of, deletes, loop, pending, wanted, product_ids>>
    /\ recorded' = recorded \cup AllStoreIds(service_store')
    /\ UNCHANGED <<t_outcome, at_teardown>>
    /\ UNCHANGED notSessionVars

\* The body of a test that creates no order ends.
EndBody ==
    /\ s_pc = "body"
    /\ s_pc' = "body_done"
    /\ UNCHANGED <<test, ntests, contexts, context_of, service_store, made, deletes, loop,
                   pending, wanted, product_ids>>
    /\ UNCHANGED <<recorded, t_outcome, at_teardown>>
    /\ UNCHANGED notSessionVars

\* After the body: cleanup, after the yield, calls
\* orders_service.full_delete(token), which starts its first loop over a copy
\* of the ids; a test without cleanup has no teardown.
BeginTeardown ==
    /\ s_pc = "body_done"
    /\ IF test.cleanup
       THEN /\ s_pc' = "full_delete"
            /\ loop' = 1
            /\ pending' = StoreIds(service_store, full_delete[1])
       ELSE /\ s_pc' = "between"
            /\ UNCHANGED <<loop, pending>>
    /\ UNCHANGED <<test, ntests, contexts, context_of, service_store, made, deletes, wanted,
                   product_ids>>
    /\ at_teardown' = IF test.cleanup THEN AllStoreIds(service_store) ELSE at_teardown
    /\ UNCHANGED <<recorded, t_outcome>>
    /\ UNCHANGED notSessionVars

\* How a delete call can end: the backend answers 204, the backend answers
\* an error status, or the request fails on the network.
DeleteOutcomes == {"deleted", "rejected", "error"}

\* Variant: a wrong status raises as well.
delete_raises_OnAnyFailure(outcome) == outcome # "deleted"

\* Whether service.delete raises: validate_response records a wrong status as
\* a soft failure and returns; the error PlaywrightApiClient.send propagates
\* on a network failure is caught nowhere.
delete_raises(outcome) == outcome = "error"

\* One round of a loop of full_delete: a delete call for id e.  When it
\* raises, full_delete and the teardown end there, and store.clear() is not
\* reached.
Delete(e, outcome) ==
    /\ s_pc = "full_delete"
    /\ e \in pending
    /\ deletes' = Append(deletes, [entity |-> e, test |-> test.id])
    /\ t_outcome' = [rejected |-> IF outcome = "rejected" /\ t_outcome.rejected = NoEntity THEN e ELSE t_outcome.rejected, error |-> outcome = "error"]
    /\ IF delete_raises(outcome)
       THEN /\ s_pc' = "between"
            /\ pending' = {}
            /\ loop' = 0
       ELSE /\ pending' = pending \ {e}
            /\ UNCHANGED <<s_pc, loop>>
    /\ UNCHANGED <<test, ntests, contexts, context_of, service_store, made, wanted, product_ids, recorded, at_teardown>>
    /\ UNCHANGED notSessionVars

\* A loop of full_delete is through; the next one starts.
NextLoop ==
    /\ s_pc = "full_delete"
    /\ pending = {}
    /\ loop < Len(full_delete)
    /\ loop' = loop + 1
    /\ pending' = StoreIds(service_store, full_delete[loop + 1])
    /\ UNCHANGED <<s_pc, test, ntests, contexts, context_of, service_store, made, deletes,
                   wanted, product_ids>>
    /\ UNCHANGED <<recorded, t_outcome, at_teardown>>
    /\ UNCHANGED notSessionVars

\* full_delete has returned: store.clear() empties the store the fixture
\* made, and the teardown is finished.
FinishTeardown ==
    /\ s_pc = "full_delete"
    /\ pending = {}
    /\ loop = Len(full_delete)
    /\ service_store' = IF service_store.owner = test.id
                        THEN EntitiesStore(test.id)
                        ELSE service_store
    /\ s_pc' = "between"
    /\ loop' = 0
    /\ UNCHANGED <<test, ntests, contexts, context_of, made, deletes, pending, wanted,
                   product_ids>>
    /\ UNCHANGED <<recorded, t_outcome, at_teardown>>
    /\ UNCHANGED notSessionVars

SessionNext ==
    \/ \E use_cleanup \in BOOLEAN : SetupTest(use_cleanup)
    \/ \E n \in 1..MaxSessionProducts : CallFactory(n)
    \/ \E ok \in BOOLEAN : FactoryCreateCustomer(ok)
    \/ \E ok \in BOOLEAN : FactoryCreateProduct(ok)
    \/ \E ok \in BOOLEAN : FactoryCreateOrder(ok)
    \/ EndBody
    \/ BeginTeardown
    \/ \E e \in pending, outcome \in DeleteOutcomes : Delete(e, outcome)
    \/ NextLoop
    \/ FinishTeardown

SpecSession == Init /\ [][SessionNext]_vars

SessionTypeOK ==
    /\ s_pc \in {"between", "body", "create_customer", "create_product", "create_order",
                 "body_done", "full_delete"}
    /\ ntests \in 0..MaxTests
    /\ contexts \in 0..MaxTests
    /\ loop \in 0..Len(full_delete)
    /\ pending \subseteq made
    /\ product_ids \subseteq made
    /\ recorded \subseteq made
    /\ at_teardown \subseteq recorded
    /\ t_outcome.rejected \in made \cup {NoEntity}
    /\ t_outcome.error \in BOOLEAN

\* ------------------------------------------------------------------------
\* Properties of the test session
\* ------------------------------------------------------------------------

\* A delete call has been issued for entity e.
DeleteIssued(e) == \E i \in 1..Len(deletes) : deletes[i].entity = e

\* The teardown of a test that uses the cleanup fixture has finished.
TeardownFinished == s_pc = "between" /\ test.cleanup

\* C12 as stated: when the teardown of a test that uses cleanup has finished,
\* a delete call has been issued for every customer, product and order that
\* was created through orders_service during that test.
C12_TeardownDeletesAllCreated ==
    TeardownFinished => \A e \in made : e.test = test.id => DeleteIssued(e)

\* C25: when create_order_and_entities has returned or raised, every customer,
\* product and order it created on the backend in this test is in the store
\* that orders_service holds.
C25_CreatedEntitiesAreRecorded == s_pc = "body_done" => \A e \in made : e.test = test.id => e \in AllStoreIds(service_store)

C29_FailedDeleteDoesNotStopTeardown == (TeardownFinished /\ (t_outcome.rejected # NoEntity \/ t_outcome.error)) => \A e \in at_teardown : DeleteIssued(e)

\* C29 amended: when delete calls were answered with an error status and none
\* raised, a delete call has been issued for every id the store held.
C29_RejectedDeleteDoesNotStopTeardown == (TeardownFinished /\ t_outcome.rejected # NoEntity /\ ~t_outcome.error) => \A e \in at_teardown : DeleteIssued(e)

\* The delete of the order was rejected, and the customer and the products
\* were issued their delete calls after it.
C29_Witness == TeardownFinished /\ t_outcome.rejected.kind = "order" /\ ~t_outcome.error /\ Cardinality(at_teardown) >= 3 /\ \A e \in at_teardown : DeleteIssued(e)

C14_FreshContextPerTest ==
    \A t1 \in 1..ntests, t2 \in 1..ntests : t1 # t2 => context_of[t1] # context_of[t2]

\* C14 amended: one request context is made per session, and every test of
\* the session uses it.
C14_OneContextPerSession ==
    /\ contexts <= 1
    /\ \A t \in 1..ntests : context_of[t] = 1

C14_Witness ==
    /\ ntests >= 2
    /\ s_pc = "body"
    /\ context_of[ntests] = context_of[1]

\* Orders are deleted first, customers second, products last.
KindRank(kind) ==
    CASE kind = "order" -> 1
      [] kind = "customer" -> 2
      [] OTHER -> 3

\* C15: among the delete calls of one teardown, every order delete comes
\* before every customer delete, and every customer delete before every
\* product delete.
C15_OrdersThenCustomersThenProducts ==
    \A i \in 1..Len(deletes), j \in 1..Len(deletes) :
        (i < j /\ deletes[i].test = deletes[j].test) =>
            KindRank(deletes[i].entity.kind) <= KindRank(deletes[j].entity.kind)

C15_Witness ==
    /\ TeardownFinished
    /\ \E i \in 1..Len(deletes), j \in 1..Len(deletes), k \in 1..Len(deletes) :
          /\ i < j /\ j < k
          /\ deletes[i].test = test.id
          /\ deletes[i].entity.kind = "order"
          /\ deletes[j].entity.kind = "customer"
          /\ deletes[k].entity.kind = "product"

\* ------------------------------------------------------------------------
\* validate_response applied to the responses a backend can send
\* ------------------------------------------------------------------------

\* An order as a response carries it.
SomeOrder == BackendCreateOrder(1).Order

\* The responses: a JSON object with IsSuccess, ErrorMessage and perhaps an
\* Order; no body (204); a body of plain text.
Responses ==
    {[Response(st, ok, msg, o) EXCEPT !.Body = "dict"] :
        st \in {OK, CREATED, DELETED, BAD_REQUEST}, ok \in BOOLEAN,
        msg \in {NoMessage, INVALID_ORDER_STATUS}, o \in {NoOrder, SomeOrder}}
    \cup {[Response(st, FALSE, NoMessage, NoOrder) EXCEPT !.Body = b] :
            st \in {OK, DELETED, BAD_REQUEST}, b \in {"none", "text"}}

\* A response has arrived.
InitValidate ==
    /\ OrderInit
    /\ SessionInit
    /\ DatesIdle
    /\ ModalIdle
    /\ CrudIdle
    /\ MockIdle
    /\ NotifyIdle
    /\ MaskIdle
    /\ v_pc = "ready"
    /\ v_response \in Responses
    /\ v_call = NoCall
    /\ v_evaluated = {}
    /\ v_failed = {}
    /\ v_raised = FALSE

\* The methods of OrdersApiService that call validate_response.
ServiceMethods ==
    {"create", "delete", "update", "update_status", "create_order_with_delivery",
     "create_partially_received_order", "create_received_order", "create_order_in_status",
     "add_comment", "delete_comment", "assign_manager", "unassign_manager"}

\* Variant: every method passes the expected status only.
ValidationOf_StatusOnly(method) ==
    [caller |-> method,
     status |-> IF method \in {"delete", "delete_comment"} THEN DELETED ELSE OK,
     is_success |-> NotPassed, error_message |-> NotPassed, schema |-> NotPassed]

\* The arguments a method of OrdersApiService passes to validate_response.
ValidationOf(method) ==
    CASE method \in {"delete", "delete_comment"} ->
            [caller |-> method, status |-> DELETED, is_success |-> NotPassed,
             error_message |-> NotPassed, schema |-> NotPassed]
      [] method \in {"update", "create_order_with_delivery"} ->
            [caller |-> method, status |-> OK, is_success |-> "True",
             error_message |-> None, schema |-> NotPassed]
      [] method = "create" ->
            [caller |-> method, status |-> CREATED, is_success |-> "True",
             error_message |-> None, schema |-> GET_ORDER_SCHEMA]
      [] OTHER ->
            [caller |-> method, status |-> OK, is_success |-> "True",
             error_message |-> None, schema |-> GET_ORDER_SCHEMA]

\* validate_response is called with the arguments of call on the response.
Validate(call) ==
    /\ v_call' = call
    /\ v_evaluated' = checks_evaluated(Bound(call.is_success), Bound(call.error_message),
                                       Bound(call.schema))
    /\ v_failed' = validate_response(v_response, call.status, Bound(call.is_success),
                                     Bound(call.error_message), Bound(call.schema))
    /\ v_raised' = validate_raises(v_response, Bound(call.schema))
    /\ v_pc' = "done"
    /\ UNCHANGED v_response
    /\ UNCHANGED notValidateVars

\* A method of OrdersApiService validates the response it got.
ServiceValidates(method) ==
    /\ v_pc = "ready"
    /\ Validate(ValidationOf(method))

\* A test validates the response it got, with the values of its case.
TestValidates(status, is_success, error_message, schema) ==
    /\ v_pc = "ready"
    /\ Validate([caller |-> "test", status |-> status, is_success |-> is_success,
                 error_message |-> error_message, schema |-> schema])

ValidateNext ==
    \/ \E method \in ServiceMethods : ServiceValidates(method)
    \/ \E status \in {OK, BAD_REQUEST}, is_success \in {NotPassed, None, "True", "False"},
          error_message \in {NotPassed, None, INVALID_ORDER_STATUS},
          schema \in {NotPassed, None, GET_ORDER_SCHEMA} :
          TestValidates(status, is_success, error_message, schema)

SpecValidate == InitValidate /\ [][ValidateNext]_vars

\* The check c is one the call asks for.
Asked(c) ==
    CASE c = "status" -> TRUE
      [] c = "IsSuccess" -> Bound(v_call.is_success) # None
      [] c = "ErrorMessage" -> Bound(v_call.error_message) # None
      [] OTHER -> Bound(v_call.schema) # None

\* The response does not have what the call expects for check c.
Mismatch(c) ==
    CASE c = "status" -> v_response.status # v_call.status
      [] c = "IsSuccess" ->
            \/ v_response.Body # "dict"
            \/ v_response.IsSuccess # (v_call.is_success = "True")
      [] c = "ErrorMessage" ->
            \/ v_response.Body # "dict"
            \/ v_response.ErrorMessage # v_call.error_message
      [] OTHER -> v_response.Body # "dict" \/ v_response.Order = NoOrder

AllChecks == {"status", "IsSuccess", "ErrorMessage", "schema"}

C17_ExplicitNoneIsCompared ==
    (v_pc = "done" /\ v_call.error_message # NotPassed) =>
        ("ErrorMessage" \in v_failed <=> actual_error_message(v_response) # v_call.error_message)

\* C18 as stated: every method of OrdersApiService validates the status, the
\* success flag and the error message of the response.
C18_ThreeFieldsValidated ==
    (v_pc = "done" /\ v_call.caller \in ServiceMethods) =>
        {"status", "IsSuccess", "ErrorMessage"} \subseteq v_evaluated

\* C18 amended: every method of OrdersApiService validates the status of the
\* response; delete and delete_comment validate nothing else; the other
\* methods also validate the success flag; none compares the error message.
C18_StatusAndSuccessFlag ==
    (v_pc = "done" /\ v_call.caller \in ServiceMethods) =>
        /\ "status" \in v_evaluated
        /\ ("status" \in v_failed <=> v_response.status # v_call.status)
        /\ IF v_call.caller \in {"delete", "delete_comment"}
           THEN v_evaluated = {"status"}
           ELSE /\ "IsSuccess" \in v_evaluated
                /\ v_response.Body = "dict" =>
                      ("IsSuccess" \in v_failed <=> ~v_response.IsSuccess)
        /\ "ErrorMessage" \notin v_evaluated

C18_Witness ==
    /\ v_pc = "done"
    /\ v_call.caller = "update_status"
    /\ v_response.Body = "dict"
    /\ v_response.ErrorMessage # NoMessage
    /\ v_failed = {}

\* ------------------------------------------------------------------------
\* scripts/notify_telegram.py and TelegramService.post_notification
\* ------------------------------------------------------------------------

\* The counts a run reports.
MaxCount == 1

\* The script starts with arguments and an environment.
InitNotify ==
    /\ OrderInit
    /\ SessionInit
    /\ DatesIdle
    /\ ModalIdle
    /\ CrudIdle
    /\ MockIdle
    /\ ValidateIdle
    /\ MaskIdle
    /\ n_pc = "start"
    /\ n_args \in [report_url : {NoText, "https://pages/report"},
                   passed : {NoCount} \cup 0..MaxCount,
                   failed : {NoCount} \cup 0..MaxCount,
                   skipped : {NoCount} \cup 0..MaxCount,
                   env : {NoText, "default"}]
    /\ n_env \in [TELEGRAM_BOT_TOKEN : BOOLEAN, TELEGRAM_CHAT_ID : BOOLEAN]
    /\ n_message = <<>>
    /\ n_sent = FALSE
    /\ n_log = "-"
    /\ n_raised = FALSE
    /\ n_exit = -1

\* _build_message: the lines of the message.
build_message(report_url, passed, failed, skipped, env) ==
    <<[line |-> "title", ok |-> (failed = NoCount \/ failed = 0)]>>
    \o (IF env # NoText THEN <<[line |-> "env", env |-> env]>> ELSE <<>>)
    \o (IF passed # NoCount \/ failed # NoCount \/ skipped # NoCount
        THEN <<[line |-> "stats", passed |-> passed, failed |-> failed, skipped |-> skipped]>>
        ELSE <<>>)
    \o (IF report_url # NoText THEN <<[line |-> "report", url |-> report_url]>> ELSE <<>>)

\* What asyncio.run(_send()) can end with: the message is sent, or an
\* exception of the Telegram client or of the event loop.
SendOutcomes ==
    {"sent", "InvalidToken", "Forbidden", "BadRequest", "NetworkError", "TimedOut",
     "RuntimeError"}

\* Variant: no try/except around asyncio.run.
caught_Nothing(outcome) == FALSE

\* except Exception: every outcome that is an exception of class Exception.
caught(outcome) == outcome \in SendOutcomes \ {"sent"}

\* main: parse_args and _build_message.
BuildMessage ==
    /\ n_pc = "start"
    /\ n_message' = build_message(n_args.report_url, n_args.passed, n_args.failed,
                                  n_args.skipped, n_args.env)
    /\ n_pc' = "built"
    /\ UNCHANGED <<n_args, n_env, n_sent, n_log, n_raised, n_exit>>
    /\ UNCHANGED notNotifyVars

\* service = TelegramService(); service.post_notification(message): without
\* token or chat id nothing is sent; else the message is sent, and an
\* exception of the sending is caught and logged.
PostNotification(outcome) ==
    /\ n_pc = "built"
    /\ IF ~n_env.TELEGRAM_BOT_TOKEN \/ ~n_env.TELEGRAM_CHAT_ID
       THEN /\ n_log' = "skipping notification"
            /\ UNCHANGED <<n_sent, n_raised>>
       ELSE IF outcome = "sent"
            THEN /\ n_sent' = TRUE
                 /\ UNCHANGED <<n_log, n_raised>>
            ELSE IF caught(outcome)
                 THEN /\ n_log' = "failed to send notification"
                      /\ UNCHANGED <<n_sent, n_raised>>
                 ELSE /\ n_raised' = TRUE
                      /\ UNCHANGED <<n_sent, n_log>>
    /\ n_pc' = "posted"
    /\ UNCHANGED <<n_args, n_env, n_message, n_exit>>
    /\ UNCHANGED notNotifyVars

\* main returns and the interpreter exits: 0, or 1 after an exception.
Exit ==
    /\ n_pc = "posted"
    /\ n_exit' = IF n_raised THEN 1 ELSE 0
    /\ n_pc' = "exited"
    /\ UNCHANGED <<n_args, n_env, n_message, n_sent, n_log, n_raised>>
    /\ UNCHANGED notNotifyVars

NotifyNext ==
    \/ BuildMessage
    \/ \E outcome \in SendOutcomes : PostNotification(outcome)
    \/ Exit

SpecNotify == InitNotify /\ [][NotifyNext]_vars

\* C19: post_notification never raises, whether the message is delivered or
\* not, and the script then exits with code 0.
C19_NotificationNeverFails ==
    /\ ~n_raised
    /\ n_pc = "exited" => n_exit = 0

C19_Witness ==
    /\ n_pc = "exited"
    /\ n_env.TELEGRAM_BOT_TOKEN
    /\ n_env.TELEGRAM_CHAT_ID
    /\ ~n_sent
    /\ n_log = "failed to send notification"
    /\ n_exit = 0

\* ------------------------------------------------------------------------
\* mask_secrets and the attachments of PlaywrightApiClient
\* ------------------------------------------------------------------------

\* A payload is a JSON text, here a sequence of tokens: a key with its
\* quotes and colon is one token, every other character is a token of its
\* own.  The string values of the fields have at most MaxValueLen characters.
MaxValueLen == 3

QUOTE == "\""
BACKSLASH == "\\"
SPACE == " "

\* The characters of the values.
Alphabet == {"a", "1", QUOTE, BACKSLASH}

\* The keys of the fields, as json.dumps writes them.
Keys == {"\"password\":", "\"Authorization\":", "\"authorization\":", "\"email\":"}

\* re.IGNORECASE on the keys.
Lower(key) == IF key = "\"Authorization\":" THEN "\"authorization\":" ELSE key

\* _SENSITIVE_FIELDS
SENSITIVE_FIELDS == {"\"password\":", "\"authorization\":"}

\* The strings over Alphabet of at most n characters.
RECURSIVE Strings(_)
Strings(n) ==
    IF n = 0
    THEN {<<>>}
    ELSE LET shorter == Strings(n - 1)
         IN shorter \cup {Append(v, c) : v \in shorter, c \in Alphabet}

\* json.dumps of a str: quotes around the characters, a backslash before
\* every quote and every backslash.
RECURSIVE escape(_)
escape(v) ==
    IF v = <<>>
    THEN <<>>
    ELSE (IF Head(v) \in {QUOTE, BACKSLASH} THEN <<BACKSLASH, Head(v)>> ELSE <<Head(v)>>)
         \o escape(Tail(v))

json_dumps_str(v) == <<QUOTE>> \o escape(v) \o <<QUOTE>>

\* json.dumps of an object with the one field key: value.
json_dumps(key, value) == <<"{", key, SPACE>> \o json_dumps_str(value) \o <<"}">>

\* The first index from i on at which text has token c; 0 if there is none.
RECURSIVE IndexFrom(_, _, _)
IndexFrom(text, i, c) ==
    IF i > Len(text) THEN 0
    ELSE IF text[i] = c THEN i
    ELSE IndexFrom(text, i + 1, c)

\* The index after the whitespace that starts at i.
RECURSIVE SkipSpace(_, _)
SkipSpace(text, i) ==
    IF i <= Len(text) /\ text[i] = SPACE THEN SkipSpace(text, i + 1) ELSE i

\* The index after the digits that start at i.
RECURSIVE SkipDigits(_, _)
SkipDigits(text, i) ==
    IF i <= Len(text) /\ text[i] = "1" THEN SkipDigits(text, i + 1) ELSE i

\* _PATTERN matched at index i of text: the index of the last token of the
\* match, 0 if there is no match.  After the key and whitespace comes a
\* quote, characters that are no quote and a quote, or digits.
MatchEnd(text, i) ==
    IF Lower(text[i]) \notin SENSITIVE_FIELDS
    THEN 0
    ELSE LET j == SkipSpace(text, i + 1)
         IN IF j > Len(text) THEN 0
            ELSE IF text[j] = QUOTE THEN IndexFrom(text, j + 1, QUOTE)
            ELSE IF text[j] = "1" THEN SkipDigits(text, j) - 1
            ELSE 0

REDACTED == "\"[REDACTED]\""

\* _PATTERN.sub(r'"\1": "[REDACTED]"', data), from index i on.
RECURSIVE sub(_, _)
sub(text, i) ==
    IF i > Len(text)
    THEN <<>>
    ELSE LET e == MatchEnd(text, i)
         IN IF e > 0
            THEN <<text[i], SPACE, REDACTED>> \o sub(text, e + 1)
            ELSE <<text[i]>> \o sub(text, i + 1)

mask_secrets(data) == sub(data, 1)

\* A payload with one field is about to be attached.
InitMask ==
    /\ OrderInit
    /\ SessionInit
    /\ DatesIdle
    /\ ModalIdle
    /\ CrudIdle
    /\ MockIdle
    /\ ValidateIdle
    /\ NotifyIdle
    /\ m_pc = "ready"
    /\ m_field \in [key : Keys, value : Strings(MaxValueLen)]
    /\ m_attachment = <<>>

\* _attach_request: the field is a header or a field of the body sent.
AttachRequest ==
    /\ m_pc = "ready"
    /\ m_field.key \in {"\"password\":", "\"Authorization\":", "\"email\":"}
    /\ m_attachment' = mask_secrets(json_dumps(m_field.key, m_field.value))
    /\ m_pc' = "attached"
    /\ UNCHANGED m_field
    /\ UNCHANGED notMaskVars

\* _attach_response: the field is a header or a field of the body received.
AttachResponse ==
    /\ m_pc = "ready"
    /\ m_field.key \in {"\"authorization\":", "\"email\":"}
    /\ m_attachment' = mask_secrets(json_dumps(m_field.key, m_field.value))
    /\ m_pc' = "attached"
    /\ UNCHANGED m_field
    /\ UNCHANGED notMaskVars

MaskNext ==
    \/ AttachRequest
    \/ AttachResponse

SpecMask == InitMask /\ [][MaskNext]_vars

\* C20 as stated: in an attachment the value of a password or authorization
\* field is replaced as a whole: nothing of it is left in the text.
C20_NoSecretInAttachment ==
    (m_pc = "attached" /\ Lower(m_field.key) \in SENSITIVE_FIELDS) =>
        m_attachment = <<"{", m_field.key, SPACE, REDACTED, "}">>

\* ---------------------------------------------------------------------------
\* Mock: network interception of the UI integration tests
\* ---------------------------------------------------------------------------

\* How many routes one test registers on its page.
MaxRoutes == 2

\* The URL patterns of the order helpers of Mock: orders_page (a regex on the
\* query string), create_order_modal (the plain orders URL) and order_by_id.
ORDERS == "/api/orders"

ORDERS_PAGE_PATTERN == "/api/orders\\?.*$"

ORDER_BY_ID == "/api/orders/1/"

Patterns == {ORDERS_PAGE_PATTERN, ORDERS, ORDER_BY_ID}

\* The URLs the browser requests.
Urls == {"/api/orders", "/api/orders?sortField=email", "/api/orders?page=2", "/api/orders/1/", "/api/products"}

\* The bodies and status codes the tests hand to route_request.
Bodies == {"initial_data", "sorted_data"}

MockStatuses == {OK, CREATED}

\* Whether a URL matches a pattern: the regex of orders_page matches the orders
\* URL followed by a query string, a plain string matches that URL only.
Matches(pattern, url) == IF pattern = ORDERS_PAGE_PATTERN THEN url \in {"/api/orders?sortField=email", "/api/orders?page=2"} ELSE url = pattern

\* Variant: the handler registered first keeps answering.
handler_for_FirstRegistered(routes, url) == IF \E i \in DOMAIN routes : Matches(routes[i].url, url) THEN CHOOSE i \in DOMAIN routes : Matches(routes[i].url, url) /\ \A j \in DOMAIN routes : Matches(routes[j].url, url) => i <= j ELSE 0

\* page.route: of the handlers whose pattern matches, the one registered last
\* runs; _handler always fulfils, so no earlier handler is consulted. 0 when no
\* pattern matches.
handler_for(routes, url) == IF \E i \in DOMAIN routes : Matches(routes[i].url, url) THEN CHOOSE i \in DOMAIN routes : Matches(routes[i].url, url) /\ \A j \in DOMAIN routes : Matches(routes[j].url, url) => j <= i ELSE 0

\* Mock.route_request(url, body, status_code): registers a handler that
\* fulfils with the given body and status.
RouteRequest(url, body, status_code) ==
    /\ UNCHANGED notMockVars
    /\ Len(mock_routes) < MaxRoutes
    /\ mock_routes' = Append(mock_routes, [url |-> url, body |-> body, status |-> status_code])
    /\ UNCHANGED mock_request

\* The browser requests a URL: the chosen handler fulfils it, and a request
\* that no pattern matches goes to the backend.
BrowserRequest(url) ==
    /\ UNCHANGED notMockVars
    /\ LET h == handler_for(mock_routes, url)
       IN  mock_request' = IF h = 0 THEN [url |-> url, backend |-> TRUE, body |-> "backend", status |-> OK, routes |-> Len(mock_routes)] ELSE [url |-> url, backend |-> FALSE, body |-> mock_routes[h].body, status |-> mock_routes[h].status, routes |-> Len(mock_routes)]
    /\ UNCHANGED mock_routes

MockNext ==
    \/ \E url \in Patterns, body \in Bodies, status_code \in MockStatuses : RouteRequest(url, body, status_code)
    \/ \E url \in Urls : BrowserRequest(url)

SpecMock == Init /\ [][MockNext]_vars

\* The routes that were registered when the last request was made.
RoutesAtRequest == SubSeq(mock_routes, 1, mock_request.routes)

\* C21 as stated: a request is answered with the body and status of every
\* registered route whose pattern matches it, and never reaches the backend.
C21_EveryMatchingRouteAnswers == mock_request # NoBrowserRequest => \A i \in DOMAIN RoutesAtRequest : Matches(RoutesAtRequest[i].url, mock_request.url) => (~mock_request.backend /\ mock_request.body = RoutesAtRequest[i].body /\ mock_request.status = RoutesAtRequest[i].status)

\* C21 amended: a request that a registered pattern matches is answered with
\* the body and status of the matching route registered last, and never
\* reaches the backend.
C21_LastMatchingRouteAnswers == (mock_request # NoBrowserRequest /\ \E i \in DOMAIN RoutesAtRequest : Matches(RoutesAtRequest[i].url, mock_request.url)) => LET last_match == CHOOSE i \in DOMAIN RoutesAtRequest : Matches(RoutesAtRequest[i].url, mock_request.url) /\ \A j \in DOMAIN RoutesAtRequest : Matches(RoutesAtRequest[j].url, mock_request.url) => j <= i IN ~mock_request.backend /\ mock_request.body = RoutesAtRequest[last_match].body /\ mock_request.status = RoutesAtRequest[last_match].status

\* Two routes with different bodies match the request that was just answered.
C21_Witness == mock_request # NoBrowserRequest /\ \E i, j \in DOMAIN RoutesAtRequest : i < j /\ Matches(RoutesAtRequest[i].url, mock_request.url) /\ Matches(RoutesAtRequest[j].url, mock_request.url) /\ RoutesAtRequest[i].body # RoutesAtRequest[j].body /\ mock_request.body = RoutesAtRequest[j].body

\* ---------------------------------------------------------------------------
\* Delete tests: create, delete, then get by id
\* ---------------------------------------------------------------------------

\* How many entities the delete tests create.
MaxEntities == 3

NOT_FOUND == 404

Kinds == {"order", "product", "customer"}

\* The id of the negative tests, which no create call ever returned.
NON_EXISTING_ID == 0

\* Variant: a delete that answers 204 and keeps the entity.
backend_delete_KeepsEntity(entities, e) == entities

\* What the positive delete tests expect of DELETE /:id on an existing entity:
\* 204, after which the entity is gone.
backend_delete(entities, e) == entities \ {e}

\* What the tests expect of GET /:id: 404 for an id that is not present.
backend_get(entities, e) == IF e \in entities THEN OK ELSE NOT_FOUND

\* service.create: the backend stores a new entity under a new id.
CreateEntity(kind) ==
    /\ UNCHANGED notCrudVars
    /\ next_id <= MaxEntities
    /\ db' = db \cup {[kind |-> kind, id |-> next_id]}
    /\ next_id' = next_id + 1
    /\ crud_last' = [op |-> "create", kind |-> kind, id |-> next_id, status |-> CREATED]
    /\ UNCHANGED removed

\* api.delete on an id a create call returned: 204 when the entity is present
\* (positive tests), 404 when it is not.
DeleteEntity(e) ==
    /\ UNCHANGED notCrudVars
    /\ e \in db \cup removed
    /\ db' = IF e \in db THEN backend_delete(db, e) ELSE db
    /\ removed' = IF e \in db THEN removed \cup {e} ELSE removed
    /\ crud_last' = [op |-> "delete", kind |-> e.kind, id |-> e.id, status |-> IF e \in db THEN DELETED ELSE NOT_FOUND]
    /\ UNCHANGED next_id

\* api.delete on the non-existing id of the negative tests: 404.
DeleteNonExisting(kind) ==
    /\ UNCHANGED notCrudVars
    /\ crud_last' = [op |-> "delete", kind |-> kind, id |-> NON_EXISTING_ID, status |-> NOT_FOUND]
    /\ UNCHANGED <<db, removed, next_id>>

\* api.get_by_id on an id a create call returned.
GetById(e) ==
    /\ UNCHANGED notCrudVars
    /\ e \in db \cup removed
    /\ crud_last' = [op |-> "get", kind |-> e.kind, id |-> e.id, status |-> backend_get(db, e)]
    /\ UNCHANGED <<db, removed, next_id>>

CrudNext ==
    \/ \E kind \in Kinds : CreateEntity(kind)
    \/ \E e \in db \cup removed : DeleteEntity(e)
    \/ \E kind \in Kinds : DeleteNonExisting(kind)
    \/ \E e \in db \cup removed : GetById(e)

SpecCrud == Init /\ [][CrudNext]_vars

\* C22: a GET by the id of an order, product or customer that a delete call
\* removed with 204 is answered 404, however many requests came in between.
C22_DeletedIsNotFound == (crud_last.op = "get" /\ [kind |-> crud_last.kind, id |-> crud_last.id] \in removed) => crud_last.status = NOT_FOUND

\* A deleted entity is read after a later entity was created and read.
C22_Witness == crud_last.op = "get" /\ crud_last.status = NOT_FOUND /\ [kind |-> crud_last.kind, id |-> crud_last.id] \in removed /\ \E e \in db : e.id > crud_last.id

\* ---------------------------------------------------------------------------
\* EditProductsModal.edit_order
\* ---------------------------------------------------------------------------

\* The product names on offer in the dropdowns.
ProductNames == {"Apple", "Bread"}

\* What the dropdown of a row added with the add button shows.
DefaultOption == "Apple"

\* The sequences over a set with lengths lo..hi.
SeqsOf(S, lo, hi) == UNION {[1..n -> S] : n \in lo..hi}

\* The modal is open on an order, which has 1..5 products, one row for each;
\* everything else is idle.
InitModal ==
    /\ OrderInit
    /\ SessionInit
    /\ DatesIdle
    /\ ValidateIdle
    /\ NotifyIdle
    /\ MaskIdle
    /\ MockIdle
    /\ CrudIdle
    /\ e_pc = "opened"
    /\ rows \in SeqsOf(ProductNames, 1, MaxProducts)
    /\ e_products = <<>>
    /\ current_rows_count = 0
    /\ e_i = 0
    /\ e_delete = <<>>
    /\ e_saved = <<>>

\* A sequence without its i-th element: the rows after a click on the delete
\* button of row i.
RemoveAt(s, i) == SubSeq(s, 1, i - 1) \o SubSeq(s, i + 1, Len(s))

\* Variant: the loop stops one row early.
delete_range_StopsEarly(current, target) == [k \in 1..(current - target - 1) |-> current - k + 1]

\* range(current_rows_count - 1, target_count - 1, -1), as row numbers from 1:
\* from the last row down to the first row beyond the target count.
delete_range(current, target) == [k \in 1..(current - target) |-> current - k + 1]

\* edit_order(products) up to the loops: the assertion on the length, then the
\* row count is read once.
EditOrder(products) ==
    /\ UNCHANGED notModalVars
    /\ e_pc = "opened"
    /\ e_products' = products
    /\ IF Len(products) \in 1..5
       THEN /\ current_rows_count' = Len(rows)
            /\ e_delete' = IF Len(rows) > Len(products) THEN delete_range(Len(rows), Len(products)) ELSE <<>>
            /\ e_i' = 1
            /\ e_pc' = "editing"
       ELSE /\ e_pc' = "raised"
            /\ UNCHANGED <<current_rows_count, e_delete, e_i>>
    /\ UNCHANGED <<rows, e_saved>>

\* delete_product(i): a click on the delete button of row i; a row that is not
\* there cannot be clicked.
DeleteProduct ==
    /\ UNCHANGED notModalVars
    /\ e_pc = "editing"
    /\ e_delete # <<>>
    /\ IF Head(e_delete) \in DOMAIN rows
       THEN /\ rows' = RemoveAt(rows, Head(e_delete))
            /\ e_delete' = Tail(e_delete)
            /\ UNCHANGED e_pc
       ELSE /\ e_pc' = "raised"
            /\ UNCHANGED <<rows, e_delete>>
    /\ UNCHANGED <<e_products, current_rows_count, e_i, e_saved>>

\* click_add_product_button, for an index at or beyond the row count read at
\* the start: a new row at the end.
ClickAddProductButton ==
    /\ UNCHANGED notModalVars
    /\ e_pc = "editing"
    /\ e_delete = <<>>
    /\ e_i <= Len(e_products)
    /\ e_i > current_rows_count
    /\ rows' = Append(rows, DefaultOption)
    /\ e_pc' = "added"
    /\ UNCHANGED <<e_products, current_rows_count, e_i, e_delete, e_saved>>

\* select_product(i, product): the dropdown of row i must be visible, and then
\* shows the product.
SelectProduct ==
    /\ UNCHANGED notModalVars
    /\ e_i <= Len(e_products)
    /\ \/ e_pc = "added"
       \/ e_pc = "editing" /\ e_delete = <<>> /\ e_i <= current_rows_count
    /\ IF e_i \in DOMAIN rows
       THEN /\ rows' = [rows EXCEPT ![e_i] = e_products[e_i]]
            /\ e_i' = e_i + 1
            /\ e_pc' = "editing"
       ELSE /\ e_pc' = "raised"
            /\ UNCHANGED <<rows, e_i>>
    /\ UNCHANGED <<e_products, current_rows_count, e_delete, e_saved>>

\* click_save, after the last product.
ClickSave ==
    /\ UNCHANGED notModalVars
    /\ e_pc = "editing"
    /\ e_delete = <<>>
    /\ e_i > Len(e_products)
    /\ e_saved' = rows
    /\ e_pc' = "saved"
    /\ UNCHANGED <<rows, e_products, current_rows_count, e_i, e_delete>>

ModalNext ==
    \/ \E products \in SeqsOf(ProductNames, 0, MaxProducts) : EditOrder(products)
    \/ DeleteProduct
    \/ ClickAddProductButton
    \/ SelectProduct
    \/ ClickSave

SpecModal == InitModal /\ [][ModalNext]_vars

\* C23: edit_order, called with 1..5 names on a modal showing 1..5 rows, gets
\* to the click on save without an error, and at that click the modal has one
\* row per requested name, row i showing products[i].
C23_RowsAreTheProducts == /\ (e_pc = "saved" => e_saved = e_products) /\ (e_pc = "raised" => Len(e_products) \notin 1..5)

\* Saved after rows were deleted, and saved after rows were added.
C23_Witness == e_pc = "saved" /\ e_saved = e_products /\ current_rows_count = 5 /\ Len(e_products) = 2 /\ e_products[1] # e_products[2]

\* ---------------------------------------------------------------------------
\* Final dates of the positive add-delivery cases
\* ---------------------------------------------------------------------------

\* Days are counted from 1 December 2025; the suite is started on one of the
\* days FirstDay .. FirstDay + MaxDays, and a run lasts at most MaxRunDays more.
FirstDay == 15

MaxDays == 25

MaxRunDays == 1

\* strftime("%Y/%m/%d") of a day: year, month and day of the month.
strftime(day) == IF day <= 31 THEN <<2025, 12, day>> ELSE IF day <= 62 THEN <<2026, 1, day - 31>> ELSE <<2026, 2, day - 62>>

\* Whether one date is later than another.
IsAfter(a, b) == \/ a[1] > b[1] \/ (a[1] = b[1] /\ a[2] > b[2]) \/ (a[1] = b[1] /\ a[2] = b[2] /\ a[3] > b[3])

\* generate_delivery(**overrides): the final date is seven days from now
\* unless final_date is overridden.
generate_delivery(now, final_date) == IF final_date = None THEN strftime(now + 7) ELSE final_date

PositiveCaseIds == <<"all-required-fields", "pickup-condition", "future-date", "city-1-char">>

\* CREATE_DELIVERY_POSITIVE_CASES, built when the module is imported: three
\* generated final dates and the literal of the future-date case.
CREATE_DELIVERY_POSITIVE_CASES(now) == <<generate_delivery(now, None), generate_delivery(now, None), generate_delivery(now, <<2025, 12, 31>>), generate_delivery(now, None)>>

\* The suite is started on some day; everything else is idle.
InitDates ==
    /\ OrderInit
    /\ SessionInit
    /\ ValidateIdle
    /\ NotifyIdle
    /\ MaskIdle
    /\ MockIdle
    /\ CrudIdle
    /\ ModalIdle
    /\ d_pc = "start"
    /\ today \in FirstDay..(FirstDay + MaxDays)
    /\ d_cases = <<>>
    /\ d_passed = 0
    /\ d_case = NoCase

\* Collection imports the test data module.
ImportCases ==
    /\ UNCHANGED notDatesVars
    /\ d_pc = "start"
    /\ d_cases' = CREATE_DELIVERY_POSITIVE_CASES(today)
    /\ d_pc' = "collected"
    /\ UNCHANGED <<today, d_passed, d_case>>

\* Midnight passes while the suite runs.
DayPasses ==
    /\ UNCHANGED notDatesVars
    /\ d_pc \in {"collected", "ran"}
    /\ d_passed < MaxRunDays
    /\ today' = today + 1
    /\ d_passed' = d_passed + 1
    /\ UNCHANGED <<d_pc, d_cases, d_case>>

\* test_add_delivery_positive runs with one case of the table.
RunPositiveCase(c) ==
    /\ UNCHANGED notDatesVars
    /\ d_pc \in {"collected", "ran"}
    /\ d_case' = [id |-> PositiveCaseIds[c], final_date |-> d_cases[c], run_on |-> strftime(today)]
    /\ d_pc' = "ran"
    /\ UNCHANGED <<today, d_cases, d_passed>>

DatesNext ==
    \/ ImportCases
    \/ DayPasses
    \/ \E c \in DOMAIN PositiveCaseIds : RunPositiveCase(c)

SpecDates == InitDates /\ [][DatesNext]_vars

\* C24: the final date of the positive add-delivery case that has just run is
\* later than the day on which it ran.
C24_FinalDateInFuture == d_pc = "ran" => IsAfter(d_case.final_date, d_case.run_on)

\* ---------------------------------------------------------------------------
\* The factories against a backend that may reject a request
\* ---------------------------------------------------------------------------

\* The calls of a factory whose response goes through validate_response in
\* OrdersApiService itself.
ValidatedOps == {"create_order", "add_delivery", "assign_manager", "update_status", "receive_products"}

\* What the backend sends when it rejects a request: an error status, the
\* failure flag, a message and no Order.
ErrorResponse == Response(BAD_REQUEST, FALSE, "Rejected", NoOrder)

\* The backend rejects the call the factory issues (for assign_manager, for
\* instance, when MANAGER_IDS is empty and the manager id sent is ""): the
\* order stays as it is, validate_response records its failed checks, and
\* only _parse_order, where the factory calls it, raises.
Rejected ==
    /\ UNCHANGED notOrderVars
    /\ pc = "running"
    /\ plan # <<>>
    /\ Head(plan).op \in ValidatedOps
    /\ Issued(ErrorResponse, IF Head(plan).op = "create_order" THEN CREATED ELSE OK)
    /\ UNCHANGED <<factory, created, order, entities_store, last, nreq>>

NextFaulty ==
    \/ \E name \in Factories, n \in 1..MaxProducts, status \in OrderStatus : Start(name, n, status)
    \/ CreateCustomer
    \/ CreateProduct
    \/ CreateOrder
    \/ AddDelivery
    \/ AssignManager
    \/ UpdateStatus
    \/ ReceiveProducts
    \/ Rejected
    \/ Return
    \/ \E to \in OrderStatus : TestUpdateStatus(to)
    \/ \E ids \in (SUBSET (1..order.products)) \ {{}} : TestReceive(ids)

SpecFaulty == Init /\ [][NextFaulty]_vars

\* C26: once a response inside a factory has failed a check of its
\* validation, the factory issues no further API call.
C26_NoCallAfterFailedValidation == [][failures # {} => calls' = calls]_vars

\* ---------------------------------------------------------------------------
\* The requests of the factories against the tables
\* ---------------------------------------------------------------------------

\* The tables list a status change of order o to status to as accepted.
ListedAsAccepted(o, to) == \E c \in Range(POSITIVE_ORDER_STATUS_TRANSITIONS) : c.from_state = FromState(o) /\ c.to = to

\* The tables list a receive request on order o as accepted: the positive
\* receive cases are on orders In Process, and no negative case is about the
\* status of o.
ReceiveListedAsAccepted(o) == o.status = PROCESSING /\ ~\E c \in Range(RECEIVE_PRODUCTS_NEGATIVE_STATUS_CASES) : StatusOfTitle(c.title) = o.status

ListedAsRejected(o, to) == \E c \in Range(NEGATIVE_ORDER_STATUS_TRANSITIONS) : c.from_state = FromState(o) /\ c.to = to

\* C30: whatever state the order is in, no target status is listed for that
\* state both in the positive and in the negative transition table.
C30_TablesAreConsistent == \A to \in OrderStatus : ~(ListedAsAccepted(order, to) /\ ListedAsRejected(order, to))

\* The order is in a state for which the tables list an accepted and a
\* rejected target.
C30_Witness == pc = "returned" /\ order.status = CANCELED /\ (\E to \in OrderStatus : ListedAsAccepted(order, to)) /\ (\E to \in OrderStatus : ListedAsRejected(order, to))

====
